---- MODULE Spec2Model ----
(***************************************************************************)
(* A model of bert.git-cli: the ghsearch paginators (search_repositories,  *)
(* search_code_async, search_commits_async) with the commands that drive   *)
(* them, the configuration resolvers of ghpr and ghsearch, and the pure    *)
(* transforms of ghsearch.                                                 *)
(*                                                                         *)
(* Python values are tagged records (PyNone, PyInt, PyStr, PyBool); a      *)
(* Python string is a sequence of one-character strings.  A dict is a      *)
(* function whose DOMAIN is its key set.  An item list of the paginator is *)
(* kept run-length encoded: a run [page, lo, hi] stands for the items      *)
(* lo..hi of the response to the request for that page.                    *)
(***************************************************************************)
EXTENDS Integers, Sequences, FiniteSets, TLC

VARIABLES
    command,             \* the command that was invoked ("none" before)
    pc,                  \* "idle" | "loop" | "calling" | "awaiting" |
                         \* "returned" | "raised"
    max_pages,           \* merged["max_pages"] handed to the paginator
    page,                \* the loop variable of the paginator
    items,               \* accumulated items (runs)
    total_count,         \* PyNone until captured
    incomplete_results,  \* BOOLEAN
    session,             \* requests.Session of search_repositories
    client,              \* httpx.AsyncClient of the async paginators
    sent,                \* page numbers of the GET requests issued, in order
    inflight,            \* page numbers requested and not yet answered
    responses,           \* the responses received, in order
    result,              \* the Search Result returned (<<>> before the return)
    report_emitted,      \* the command dumped its report to stdout
    exit_status,         \* "running" | "zero" | "nonzero"
    op,                  \* pure-function harness: the function applied
    args,                \* its inputs
    ret                  \* its return value

pvars == <<command, pc, max_pages, page, items, total_count, incomplete_results,
           session, client, sent, inflight, responses, result, report_emitted,
           exit_status>>
fvars == <<op, args, ret>>
vars == <<pvars, fvars>>

----------------------------------------------------------------------------
(* Bounds *)

MaxPages == 3
MaxUrlPieces == 3
MaxGiven == 2
MaxRepos == 3
MaxTokenLen == 9

----------------------------------------------------------------------------
(* Python values *)

PyNone == [t |-> "none"]
PyInt(i) == [t |-> "int", v |-> i]
PyStr(s) == [t |-> "str", v |-> s]
PyBool(b) == [t |-> "bool", v |-> b]
PyDict(d) == [t |-> "dict", v |-> d]
PyList(xs) == [t |-> "list", v |-> xs]

\* the outcome of a call that raises
Raises == [t |-> "raises"]
EmptyDict == <<>>

\* bool(x): the truth value Python gives x
Truthy(x) ==
    CASE x.t = "none" -> FALSE
      [] x.t = "int"  -> x.v # 0
      [] x.t = "str"  -> x.v # <<>>
      [] x.t = "bool" -> x.v
      [] x.t = "dict" -> DOMAIN x.v # {}
      [] x.t = "list" -> x.v # <<>>

\* a or b
PyOr(a, b) == IF Truthy(a) THEN a ELSE b

\* d.get(k) and d.get(k, default)
Get(d, k) == IF k \in DOMAIN d THEN d[k] ELSE PyNone
GetDefault(d, k, default) == IF k \in DOMAIN d THEN d[k] ELSE default

\* the dict with key k set to v
With(dict, k, v) == [x \in DOMAIN dict \cup {k} |-> IF x = k THEN v ELSE dict[x]]

\* c.lower() for one character
LowerChar(c) ==
    CASE c = "A" -> "a"
      [] c = "C" -> "c"
      [] c = "G" -> "g"
      [] c = "O" -> "o"
      [] c = "P" -> "p"
      [] c = "S" -> "s"
      [] c = "Y" -> "y"
      [] OTHER -> c

\* s.lower()
Lower(s) == [i \in 1..Len(s) |-> LowerChar(s[i])]

\* the sort directions, spelled out: the code lower-cases them
Asc == <<"a", "s", "c">>
Desc == <<"d", "e", "s", "c">>

\* s.endswith(suffix)
EndsWith(s, suffix) ==
    /\ Len(suffix) <= Len(s)
    /\ SubSeq(s, Len(s) - Len(suffix) + 1, Len(s)) = suffix

\* s.rstrip("/")
RECURSIVE RStripSlash(_)
RStripSlash(s) ==
    IF s # <<>> /\ s[Len(s)] = "/" THEN RStripSlash(SubSeq(s, 1, Len(s) - 1))
    ELSE s

----------------------------------------------------------------------------
(* Item lists, run-length encoded *)

RECURSIVE ItemsLen(_)
ItemsLen(runs) ==
    IF runs = <<>> THEN 0
    ELSE (Head(runs).hi - Head(runs).lo + 1) + ItemsLen(Tail(runs))

\* xs[:n]
RECURSIVE Take(_, _)
Take(runs, n) ==
    IF runs = <<>> \/ n <= 0 THEN <<>>
    ELSE LET h == Head(runs)
             k == h.hi - h.lo + 1
         IN IF k <= n THEN <<h>> \o Take(Tail(runs), n - k)
            ELSE <<[page |-> h.page, lo |-> h.lo, hi |-> h.lo + n - 1]>>

\* the items of the response to the request for page p
PageItems(p, n) == IF n = 0 THEN <<>> ELSE <<[page |-> p, lo |-> 1, hi |-> n]>>

----------------------------------------------------------------------------
(* The remote API: what one GET may come back with *)

Statuses == {200, 400, 503}
TransportError ==
    [transport_error |-> TRUE, status |-> 0, decodable |-> FALSE,
     total_count |-> PyNone, incomplete_results |-> PyNone,
     n_items |-> 0, has_next |-> FALSE]

HttpResponse(s, d, tc, inc, n, nx) ==
    [transport_error |-> FALSE, status |-> s, decodable |-> d,
     total_count |-> tc, incomplete_results |-> inc,
     n_items |-> n, has_next |-> nx]

Responses ==
    LET PageSizes == {0, 1, 999}
        TotalCounts == {PyNone, PyInt(5), PyInt(7)}
        IncompleteValues == {PyNone, PyBool(FALSE), PyBool(TRUE)}
    IN  {TransportError}
        \cup {HttpResponse(s, FALSE, PyNone, PyNone, 0, FALSE) : s \in Statuses}
        \cup {HttpResponse(200, TRUE, tc, inc, n, nx) :
                tc \in TotalCounts, inc \in IncompleteValues,
                n \in PageSizes, nx \in BOOLEAN}

NoResult == <<>>

----------------------------------------------------------------------------
PaginatorIdle ==
    /\ command = "none"
    /\ pc = "idle"
    /\ max_pages = 0
    /\ page = 0
    /\ items = <<>>
    /\ total_count = PyNone
    /\ incomplete_results = FALSE
    /\ session = "none"
    /\ client = "none"
    /\ sent = <<>>
    /\ inflight = {}
    /\ responses = <<>>
    /\ result = NoResult
    /\ report_emitted = FALSE
    /\ exit_status = "running"

Init ==
    /\ PaginatorIdle
    /\ op = "none"
    /\ args = <<>>
    /\ ret = <<>>

----------------------------------------------------------------------------
(* search_repositories: the synchronous paginator *)

\* resp.status_code >= 400
search_repositories_is_error(status) == status >= 400

\* if total_count is None: capture total_count and incomplete_results
search_repositories_capture(tc, inc, resp) ==
    IF tc = PyNone
    THEN [total_count |-> resp.total_count,
          incomplete_results |-> Truthy(resp.incomplete_results)]
    ELSE [total_count |-> tc, incomplete_results |-> inc]

\* if len(items) >= 1000 or "next" not in resp.links: break
search_repositories_stop(its, has_next) == ItemsLen(its) >= 1000 \/ ~has_next

\* mutant: the range runs one page too far
search_repositories_more_extra(p, mp) == p + 1 < mp + 2

\* for page in range(1, max_pages + 1): is there a page after p
search_repositories_more(p, mp) == p + 1 < mp + 1

\* the returned dict
search_repositories_return(its, tc, inc) ==
    [total_count |-> IF tc # PyNone THEN tc ELSE PyInt(ItemsLen(its)),
     incomplete_results |-> inc,
     items |-> Take(its, 1000)]

\* one pass of the loop body on the response to the request for page p
search_repositories_body(resp, its, tc, inc, p) ==
    IF resp.transport_error \/ search_repositories_is_error(resp.status)
    THEN [exit |-> "break", items |-> its, total_count |-> tc,
          incomplete_results |-> inc]
    ELSE IF ~resp.decodable
    THEN [exit |-> "raise", items |-> its, total_count |-> tc,
          incomplete_results |-> inc]
    ELSE LET c == search_repositories_capture(tc, inc, resp)
             page_items == PageItems(p, resp.n_items)
         IN IF page_items = <<>>
            THEN [exit |-> "break", items |-> its,
                  total_count |-> c.total_count,
                  incomplete_results |-> c.incomplete_results]
            ELSE [exit |-> IF search_repositories_stop(its \o page_items,
                                                       resp.has_next)
                           THEN "break" ELSE "continue",
                  items |-> its \o page_items,
                  total_count |-> c.total_count,
                  incomplete_results |-> c.incomplete_results]

\* repos_command up to the first pass of search_repositories' loop
repos_command ==
    /\ pc = "idle"
    /\ \E mp \in 1..MaxPages : max_pages' = mp
    /\ command' = "repos"
    /\ items' = <<>>
    /\ total_count' = PyNone
    /\ incomplete_results' = FALSE
    /\ session' = "open"
    /\ page' = 1
    /\ pc' = "loop"
    /\ UNCHANGED <<client, sent, inflight, responses, result, report_emitted,
                   exit_status, fvars>>

\* session.get(url, ...) is called for the current page
search_repositories_request ==
    /\ command = "repos"
    /\ pc = "loop"
    /\ sent' = Append(sent, page)
    /\ inflight' = inflight \cup {page}
    /\ pc' = "awaiting"
    /\ UNCHANGED <<command, max_pages, page, items, total_count,
                   incomplete_results, session, client, responses, result,
                   report_emitted, exit_status, fvars>>

\* session.get returns or raises; the loop body runs; on leaving the loop the
\* session is closed, the result returned and the report dumped by repos_command
search_repositories_response ==
    /\ command = "repos"
    /\ pc = "awaiting"
    /\ \E resp \in Responses :
        LET b == search_repositories_body(resp, items, total_count,
                                          incomplete_results, page)
        IN /\ responses' = Append(responses, resp)
           /\ inflight' = inflight \ {page}
           /\ items' = b.items
           /\ total_count' = b.total_count
           /\ incomplete_results' = b.incomplete_results
           /\ IF b.exit = "raise"
              THEN /\ pc' = "raised"
                   /\ exit_status' = "nonzero"
                   /\ UNCHANGED <<page, session, result, report_emitted>>
              ELSE IF b.exit = "continue" /\ search_repositories_more(page, max_pages)
              THEN /\ pc' = "loop"
                   /\ page' = page + 1
                   /\ UNCHANGED <<session, result, report_emitted, exit_status>>
              ELSE /\ pc' = "returned"
                   /\ session' = "closed"
                   /\ result' = search_repositories_return(b.items, b.total_count,
                                                           b.incomplete_results)
                   /\ report_emitted' = TRUE
                   /\ exit_status' = "zero"
                   /\ UNCHANGED page
    /\ UNCHANGED <<command, max_pages, client, sent, fvars>>

----------------------------------------------------------------------------
(* search_code_async: the paginator of code_command *)

\* resp.status_code >= 400
search_code_async_is_error(status) == status >= 400

\* if total_count is None: capture total_count and incomplete_results
search_code_async_capture(tc, inc, resp) ==
    IF tc = PyNone
    THEN [total_count |-> resp.total_count,
          incomplete_results |-> Truthy(resp.incomplete_results)]
    ELSE [total_count |-> tc, incomplete_results |-> inc]

\* mutant: the cap test is off by one
search_code_async_stop_gt(its, has_next) == ItemsLen(its) > 1000 \/ ~has_next

\* if len(items) >= 1000 or "next" not in resp.links: break
search_code_async_stop(its, has_next) == ItemsLen(its) >= 1000 \/ ~has_next

\* mutant: the range ends one page early
search_code_async_more_short(p, mp) == p + 1 < mp

\* for page in range(1, max_pages + 1): is there a page after p
search_code_async_more(p, mp) == p + 1 < mp + 1

\* the returned dict
search_code_async_return(its, tc, inc) ==
    [total_count |-> IF tc # PyNone THEN tc ELSE PyInt(ItemsLen(its)),
     incomplete_results |-> inc,
     items |-> Take(its, 1000)]

\* one pass of the loop body on the response to the request for page p
search_code_async_body(resp, its, tc, inc, p) ==
    IF resp.transport_error \/ search_code_async_is_error(resp.status)
    THEN [exit |-> "break", items |-> its, total_count |-> tc,
          incomplete_results |-> inc]
    ELSE IF ~resp.decodable
    THEN [exit |-> "raise", items |-> its, total_count |-> tc,
          incomplete_results |-> inc]
    ELSE LET c == search_code_async_capture(tc, inc, resp)
             page_items == PageItems(p, resp.n_items)
         IN IF page_items = <<>>
            THEN [exit |-> "break", items |-> its,
                  total_count |-> c.total_count,
                  incomplete_results |-> c.incomplete_results]
            ELSE [exit |-> IF search_code_async_stop(its \o page_items,
                                                       resp.has_next)
                           THEN "break" ELSE "continue",
                  items |-> its \o page_items,
                  total_count |-> c.total_count,
                  incomplete_results |-> c.incomplete_results]

\* code_command up to the first pass of search_code_async' loop
code_command ==
    /\ pc = "idle"
    /\ \E mp \in 1..MaxPages : max_pages' = mp
    /\ command' = "code"
    /\ items' = <<>>
    /\ total_count' = PyNone
    /\ incomplete_results' = FALSE
    /\ client' = "open"
    /\ page' = 1
    /\ pc' = "loop"
    /\ UNCHANGED <<session, sent, inflight, responses, result, report_emitted,
                   exit_status, fvars>>

\* mutant: the next request is issued without awaiting the one outstanding
search_code_async_request_noawait ==
    /\ command = "code"
    /\ pc \in {"loop", "awaiting"}
    /\ Len(sent) < max_pages
    /\ sent' = Append(sent, Len(sent) + 1)
    /\ inflight' = inflight \cup {Len(sent) + 1}
    /\ pc' = "awaiting"
    /\ UNCHANGED <<command, max_pages, page, items, total_count,
                   incomplete_results, session, client, responses, result,
                   report_emitted, exit_status, fvars>>

\* await client.get(url, ...) is entered for the current page
search_code_async_request ==
    /\ command = "code"
    /\ pc = "loop"
    /\ sent' = Append(sent, page)
    /\ inflight' = inflight \cup {page}
    /\ pc' = "awaiting"
    /\ UNCHANGED <<command, max_pages, page, items, total_count,
                   incomplete_results, session, client, responses, result,
                   report_emitted, exit_status, fvars>>

\* the awaited get returns or raises; the loop body runs; leaving the async with
\* block, by break, exhaustion or exception, closes the client; on a normal exit
\* the result is returned and the report dumped by code_command
search_code_async_response ==
    /\ command = "code"
    /\ pc = "awaiting"
    /\ \E resp \in Responses :
        LET b == search_code_async_body(resp, items, total_count,
                                          incomplete_results, page)
        IN /\ responses' = Append(responses, resp)
           /\ inflight' = inflight \ {page}
           /\ items' = b.items
           /\ total_count' = b.total_count
           /\ incomplete_results' = b.incomplete_results
           /\ IF b.exit = "raise"
              THEN /\ pc' = "raised"
                   /\ client' = "closed"
                   /\ exit_status' = "nonzero"
                   /\ UNCHANGED <<page, result, report_emitted>>
              ELSE IF b.exit = "continue" /\ search_code_async_more(page, max_pages)
              THEN /\ pc' = "loop"
                   /\ page' = page + 1
                   /\ UNCHANGED <<client, result, report_emitted, exit_status>>
              ELSE /\ pc' = "returned"
                   /\ client' = "closed"
                   /\ result' = search_code_async_return(b.items, b.total_count,
                                                           b.incomplete_results)
                   /\ report_emitted' = TRUE
                   /\ exit_status' = "zero"
                   /\ UNCHANGED page
    /\ UNCHANGED <<command, max_pages, session, sent, fvars>>

----------------------------------------------------------------------------
(* search_commits_async: the paginator of commits_command *)

\* mutant: status 400 is not taken for an error
search_commits_async_is_error_gt(status) == status > 400

\* resp.status_code >= 400
search_commits_async_is_error(status) == status >= 400

\* if total_count is None: capture total_count and incomplete_results
search_commits_async_capture(tc, inc, resp) ==
    IF tc = PyNone
    THEN [total_count |-> resp.total_count,
          incomplete_results |-> Truthy(resp.incomplete_results)]
    ELSE [total_count |-> tc, incomplete_results |-> inc]

\* mutant: the loop goes on without a next link
search_commits_async_stop_nolink(its, has_next) == ItemsLen(its) >= 1000

\* if len(items) >= 1000 or "next" not in resp.links: break
search_commits_async_stop(its, has_next) == ItemsLen(its) >= 1000 \/ ~has_next

\* for page in range(1, max_pages + 1): is there a page after p
search_commits_async_more(p, mp) == p + 1 < mp + 1

\* the returned dict
search_commits_async_return(its, tc, inc) ==
    [total_count |-> IF tc # PyNone THEN tc ELSE PyInt(ItemsLen(its)),
     incomplete_results |-> inc,
     items |-> Take(its, 1000)]

\* one pass of the loop body on the response to the request for page p
search_commits_async_body(resp, its, tc, inc, p) ==
    IF resp.transport_error \/ search_commits_async_is_error(resp.status)
    THEN [exit |-> "break", items |-> its, total_count |-> tc,
          incomplete_results |-> inc]
    ELSE IF ~resp.decodable
    THEN [exit |-> "raise", items |-> its, total_count |-> tc,
          incomplete_results |-> inc]
    ELSE LET c == search_commits_async_capture(tc, inc, resp)
             page_items == PageItems(p, resp.n_items)
         IN IF page_items = <<>>
            THEN [exit |-> "break", items |-> its,
                  total_count |-> c.total_count,
                  incomplete_results |-> c.incomplete_results]
            ELSE [exit |-> IF search_commits_async_stop(its \o page_items,
                                                       resp.has_next)
                           THEN "break" ELSE "continue",
                  items |-> its \o page_items,
                  total_count |-> c.total_count,
                  incomplete_results |-> c.incomplete_results]

\* commits_command up to the first pass of search_commits_async' loop
commits_command ==
    /\ pc = "idle"
    /\ \E mp \in 1..MaxPages : max_pages' = mp
    /\ command' = "commits"
    /\ items' = <<>>
    /\ total_count' = PyNone
    /\ incomplete_results' = FALSE
    /\ client' = "open"
    /\ page' = 1
    /\ pc' = "loop"
    /\ UNCHANGED <<session, sent, inflight, responses, result, report_emitted,
                   exit_status, fvars>>

\* await client.get(url, ...) is entered for the current page
search_commits_async_request ==
    /\ command = "commits"
    /\ pc = "loop"
    /\ sent' = Append(sent, page)
    /\ inflight' = inflight \cup {page}
    /\ pc' = "awaiting"
    /\ UNCHANGED <<command, max_pages, page, items, total_count,
                   incomplete_results, session, client, responses, result,
                   report_emitted, exit_status, fvars>>

\* the awaited get returns or raises; the loop body runs; leaving the async with
\* block, by break, exhaustion or exception, closes the client; on a normal exit
\* the result is returned and the report dumped by commits_command
search_commits_async_response ==
    /\ command = "commits"
    /\ pc = "awaiting"
    /\ \E resp \in Responses :
        LET b == search_commits_async_body(resp, items, total_count,
                                          incomplete_results, page)
        IN /\ responses' = Append(responses, resp)
           /\ inflight' = inflight \ {page}
           /\ items' = b.items
           /\ total_count' = b.total_count
           /\ incomplete_results' = b.incomplete_results
           /\ IF b.exit = "raise"
              THEN /\ pc' = "raised"
                   /\ client' = "closed"
                   /\ exit_status' = "nonzero"
                   /\ UNCHANGED <<page, result, report_emitted>>
              ELSE IF b.exit = "continue" /\ search_commits_async_more(page, max_pages)
              THEN /\ pc' = "loop"
                   /\ page' = page + 1
                   /\ UNCHANGED <<client, result, report_emitted, exit_status>>
              ELSE /\ pc' = "returned"
                   /\ client' = "closed"
                   /\ result' = search_commits_async_return(b.items, b.total_count,
                                                           b.incomplete_results)
                   /\ report_emitted' = TRUE
                   /\ exit_status' = "zero"
                   /\ UNCHANGED page
    /\ UNCHANGED <<command, max_pages, session, sent, fvars>>

----------------------------------------------------------------------------
Next ==
    \/ repos_command
    \/ search_repositories_request
    \/ search_repositories_response
    \/ code_command
    \/ search_code_async_request
    \/ search_code_async_response
    \/ commits_command
    \/ search_commits_async_request
    \/ search_commits_async_response

Spec == Init /\ [][Next]_vars

----------------------------------------------------------------------------
(* Configuration resolvers: resolve_auth_token and resolve_api_base of ghpr *)
(* and of ghsearch                                                         *)

ApiV3 == <<"/", "a", "p", "i", "/", "v", "3">>
DefaultApiBase ==
    PyStr(<<"h", "t", "t", "p", "s", ":", "/", "/", "a", "p", "i", ".",
            "g", "i", "t", "h", "u", "b", ".", "c", "o", "m">>)

\* mutant: the suffix is appended whether or not it is there already
ghpr_ghe_url_to_api_base_always(env_base) ==
    (IF EndsWith(env_base, <<"/">>) THEN RStripSlash(env_base) ELSE env_base)
        \o ApiV3

\* the conversion of a (non-empty) GHE_URL to an API base
ghpr_ghe_url_to_api_base(env_base) ==
    IF ~EndsWith(env_base, ApiV3)
    THEN (IF EndsWith(env_base, <<"/">>) THEN RStripSlash(env_base)
          ELSE env_base) \o ApiV3
    ELSE env_base

\* mutant: GITHUB_TOKEN is looked up before GHE_TOKEN
ghpr_resolve_auth_token_swapped(cli_token, config_token, environ) ==
    IF Truthy(cli_token) THEN cli_token
    ELSE IF Truthy(config_token) THEN config_token
    ELSE IF Truthy(Get(environ, "GHPR_TOKEN")) THEN Get(environ, "GHPR_TOKEN")
    ELSE IF Truthy(Get(environ, "GITHUB_TOKEN")) THEN Get(environ, "GITHUB_TOKEN")
    ELSE Get(environ, "GHE_TOKEN")

ghpr_resolve_auth_token(cli_token, config_token, environ) ==
    IF Truthy(cli_token) THEN cli_token
    ELSE IF Truthy(config_token) THEN config_token
    ELSE IF Truthy(Get(environ, "GHPR_TOKEN")) THEN Get(environ, "GHPR_TOKEN")
    ELSE IF Truthy(Get(environ, "GHE_TOKEN")) THEN Get(environ, "GHE_TOKEN")
    ELSE Get(environ, "GITHUB_TOKEN")

ghpr_resolve_api_base(cli_api_base, config_api_base, environ) ==
    IF Truthy(cli_api_base) THEN cli_api_base
    ELSE IF Truthy(config_api_base) THEN config_api_base
    ELSE IF Truthy(Get(environ, "GHPR_API_BASE")) THEN Get(environ, "GHPR_API_BASE")
    ELSE IF Truthy(Get(environ, "GHE_URL"))
         THEN PyStr(ghpr_ghe_url_to_api_base(Get(environ, "GHE_URL").v))
    ELSE DefaultApiBase

ghsearch_resolve_auth_token(cli_token, config_token, environ) ==
    IF Truthy(cli_token) THEN cli_token
    ELSE IF Truthy(config_token) THEN config_token
    ELSE IF Truthy(Get(environ, "GHSEARCH_TOKEN")) THEN Get(environ, "GHSEARCH_TOKEN")
    ELSE Get(environ, "GITHUB_TOKEN")

ghsearch_resolve_api_base(cli_api_base, config_api_base, environ) ==
    IF Truthy(cli_api_base) THEN cli_api_base
    ELSE IF Truthy(config_api_base) THEN config_api_base
    ELSE IF Truthy(Get(environ, "GHSEARCH_API_BASE"))
         THEN Get(environ, "GHSEARCH_API_BASE")
    ELSE DefaultApiBase

(* Inputs: each source is absent, the empty string, or a value of its own *)

RECURSIVE Join(_)
Join(pieces) == IF pieces = <<>> THEN <<>> ELSE Head(pieces) \o Join(Tail(pieces))

InitResolve ==
    LET TokenKeys == {"GHPR_TOKEN", "GHE_TOKEN", "GITHUB_TOKEN", "GHSEARCH_TOKEN"}
        BaseKeys == {"GHPR_API_BASE", "GHE_URL", "GHSEARCH_API_BASE"}
        EnvValue(k) ==
            CASE k = "GHPR_TOKEN" -> <<"t", "1">>
              [] k = "GHE_TOKEN" -> <<"t", "2">>
              [] k = "GITHUB_TOKEN" -> <<"t", "3">>
              [] k = "GHSEARCH_TOKEN" -> <<"t", "4">>
              [] k = "GHPR_API_BASE" -> <<"b", "1">>
              [] k = "GHE_URL" -> <<"g", "/">>
              [] k = "GHSEARCH_API_BASE" -> <<"b", "3">>
        \* os.environ restricted to keys: every dict that holds some of them
        Environs(keys) ==
            UNION {{e \in [S -> {PyStr(<<>>)} \cup {PyStr(EnvValue(k)) : k \in S}] :
                       \A k \in S : e[k] \in {PyStr(<<>>), PyStr(EnvValue(k))}} :
                   S \in SUBSET keys}
        CliValues == {PyNone, PyStr(<<>>), PyStr(<<"c", "l", "i">>)}
        ConfigValues == {PyNone, PyStr(<<>>), PyStr(<<"c", "f", "g">>)}
        \* GHE_URL values: up to MaxUrlPieces pieces, joined
        UrlPieces == {<<"h">>, <<"/">>, ApiV3, <<"/", "a", "p", "i">>, <<"/", "v", "3">>}
        Urls == {Join(ps) : ps \in UNION {[1..n -> UrlPieces] : n \in 1..MaxUrlPieces}}
        ResolverInputs ==
            [for : {"token"}, round : {1}, cli : CliValues, config : ConfigValues,
             environ : Environs(TokenKeys)]
            \cup [for : {"api_base"}, round : {1}, cli : CliValues, config : ConfigValues,
                  environ : Environs(BaseKeys)]
            \cup [for : {"ghe_url"}, round : {1}, cli : {PyNone}, config : {PyNone},
                  environ : {[k \in {"GHE_URL"} |-> PyStr(u)] : u \in Urls}]
    IN  /\ PaginatorIdle
        /\ op = "none"
        /\ args \in ResolverInputs
        /\ ret = <<>>

ghpr_resolve_auth_token_call ==
    /\ op = "none"
    /\ args.for = "token"
    /\ op' = "ghpr.resolve_auth_token"
    /\ ret' = ghpr_resolve_auth_token(args.cli, args.config, args.environ)
    /\ UNCHANGED <<args, pvars>>

ghpr_resolve_api_base_call ==
    /\ op = "none"
    /\ args.for \in {"api_base", "ghe_url"}
    /\ op' = "ghpr.resolve_api_base"
    /\ ret' = ghpr_resolve_api_base(args.cli, args.config, args.environ)
    /\ UNCHANGED <<args, pvars>>

ghsearch_resolve_auth_token_call ==
    /\ op = "none"
    /\ args.for = "token"
    /\ op' = "ghsearch.resolve_auth_token"
    /\ ret' = ghsearch_resolve_auth_token(args.cli, args.config, args.environ)
    /\ UNCHANGED <<args, pvars>>

ghsearch_resolve_api_base_call ==
    /\ op = "none"
    /\ args.for = "api_base"
    /\ op' = "ghsearch.resolve_api_base"
    /\ ret' = ghsearch_resolve_api_base(args.cli, args.config, args.environ)
    /\ UNCHANGED <<args, pvars>>

\* the resolved API base is exported as GHE_URL for a second run
ghe_url_export ==
    /\ op = "ghpr.resolve_api_base"
    /\ args.for = "ghe_url"
    /\ args.round = 1
    /\ op' = "none"
    /\ args' = [args EXCEPT !.round = 2, !.environ = [k \in {"GHE_URL"} |-> ret]]
    /\ ret' = <<>>
    /\ UNCHANGED pvars

NextResolve ==
    \/ ghpr_resolve_auth_token_call
    \/ ghpr_resolve_api_base_call
    \/ ghsearch_resolve_auth_token_call
    \/ ghsearch_resolve_api_base_call
    \/ ghe_url_export

SpecResolve == InitResolve /\ [][NextResolve]_vars

----------------------------------------------------------------------------
(* Effective settings: the merge_*_config_cli functions and the option      *)
(* handling of the commands that call them                                  *)

\* a string the code never looks into is kept as one chunk
Text(chunk) == PyStr(<<chunk>>)

\* config.get(section, {}) if isinstance(config.get(section), dict) else {}
Subcfg(config, section) ==
    IF Get(config, section).t = "dict" THEN Get(config, section).v ELSE EmptyDict

\* x if x is not None else y
IfNotNone(x, y) == IF x # PyNone THEN x ELSE y

merge_repos_config_cli(config, kw, environ) ==
    LET subcfg == Subcfg(config, "repos")
    IN [api_base |-> ghsearch_resolve_api_base(kw.cli_api_base,
                                               Get(subcfg, "api_base"), environ),
        token |-> ghsearch_resolve_auth_token(kw.cli_token, Get(subcfg, "token"),
                                              environ),
        query |-> PyOr(PyOr(kw.query, Get(subcfg, "query")),
                       Text("topic:astro topic:template")),
        per_page |-> PyOr(PyOr(kw.per_page, Get(subcfg, "per_page")), PyInt(50)),
        max_pages |-> PyOr(PyOr(kw.max_pages, Get(subcfg, "max_pages")), PyInt(3)),
        min_stars |-> IfNotNone(kw.min_stars, Get(subcfg, "min_stars")),
        language |-> PyOr(kw.language, Get(subcfg, "language")),
        sort_by |-> PyOr(kw.sort_by, Get(subcfg, "sort_by")),
        sort_direction |-> PyOr(PyOr(kw.sort_direction,
                                     Get(subcfg, "sort_direction")),
                                PyStr(Desc)),
        group_by_language |->
            IfNotNone(kw.group_by_language,
                      GetDefault(subcfg, "group_by_language", PyBool(FALSE))),
        top_n |-> IfNotNone(kw.top_n, Get(subcfg, "top_n")),
        verify_tls |-> IfNotNone(kw.cli_verify_tls,
                                 GetDefault(subcfg, "verify_tls", PyBool(TRUE)))]

merge_commits_config_cli(config, kw, environ) ==
    LET subcfg == Subcfg(config, "commits")
    IN [api_base |-> ghsearch_resolve_api_base(kw.cli_api_base,
                                               Get(subcfg, "api_base"), environ),
        token |-> ghsearch_resolve_auth_token(kw.cli_token, Get(subcfg, "token"),
                                              environ),
        query |-> PyOr(PyOr(kw.query, Get(subcfg, "query")), Text("fix")),
        per_page |-> PyOr(PyOr(kw.per_page, Get(subcfg, "per_page")), PyInt(50)),
        max_pages |-> PyOr(PyOr(kw.max_pages, Get(subcfg, "max_pages")), PyInt(3)),
        repo |-> PyOr(kw.repo, Get(subcfg, "repo")),
        author |-> PyOr(kw.author, Get(subcfg, "author")),
        committer |-> PyOr(kw.committer, Get(subcfg, "committer")),
        stats |-> IfNotNone(kw.stats, GetDefault(subcfg, "stats", PyBool(FALSE))),
        verify_tls |-> IfNotNone(kw.cli_verify_tls,
                                 GetDefault(subcfg, "verify_tls", PyBool(TRUE)))]

merge_config_cli(config, kw, environ) ==
    LET subcfg == Subcfg(config, "ghpr")
    IN [api_base |-> ghpr_resolve_api_base(kw.cli_api_base,
                                           Get(subcfg, "api_base"), environ),
        token |-> ghpr_resolve_auth_token(kw.cli_token, Get(subcfg, "token"),
                                          environ),
        owner |-> PyOr(PyOr(kw.cli_owner, Get(subcfg, "owner")),
                       Get(environ, "GHE_PROJECT")),
        repo |-> PyOr(PyOr(kw.cli_repo, Get(subcfg, "repo")),
                      Get(environ, "GHE_REPO_NAME")),
        proxy |-> PyOr(kw.cli_proxy, Get(subcfg, "proxy")),
        verify_tls |-> IfNotNone(kw.cli_verify_tls,
                                 GetDefault(subcfg, "verify_tls", PyBool(TRUE)))]

\* repos_command from its typer options (cli: the options given) to merged
repos_command_merged(cli, config, environ) ==
    LET group_by_language == GetDefault(cli, "group_by_language", PyBool(FALSE))
        no_group_by_language ==
            GetDefault(cli, "no_group_by_language", PyBool(FALSE))
        group_by_language_value ==
            IF Truthy(no_group_by_language) THEN PyBool(FALSE)
            ELSE IF Truthy(group_by_language) THEN PyBool(TRUE)
            ELSE PyNone
        verify_tls == GetDefault(cli, "verify_tls", PyBool(TRUE))
        no_verify_tls == GetDefault(cli, "no_verify_tls", PyBool(FALSE))
        final_verify_tls ==
            IF Truthy(no_verify_tls) THEN PyBool(FALSE) ELSE verify_tls
    IN merge_repos_config_cli(config,
           [cli_api_base |-> Get(cli, "api_base"),
            cli_token |-> Get(cli, "token"),
            query |-> Get(cli, "query"),
            per_page |-> Get(cli, "per_page"),
            max_pages |-> Get(cli, "max_pages"),
            min_stars |-> Get(cli, "min_stars"),
            language |-> Get(cli, "language"),
            sort_by |-> Get(cli, "sort_by"),
            sort_direction |-> GetDefault(cli, "sort_direction", PyStr(Desc)),
            group_by_language |-> group_by_language_value,
            top_n |-> Get(cli, "top_n"),
            cli_verify_tls |-> final_verify_tls],
           environ)

\* commits_command from its typer options to merged
commits_command_merged(cli, config, environ) ==
    LET verify_tls == GetDefault(cli, "verify_tls", PyBool(TRUE))
        no_verify_tls == GetDefault(cli, "no_verify_tls", PyBool(FALSE))
        final_verify_tls ==
            IF Truthy(no_verify_tls) THEN PyBool(FALSE) ELSE verify_tls
    IN merge_commits_config_cli(config,
           [cli_api_base |-> Get(cli, "api_base"),
            cli_token |-> Get(cli, "token"),
            query |-> Get(cli, "query"),
            per_page |-> Get(cli, "per_page"),
            max_pages |-> Get(cli, "max_pages"),
            repo |-> Get(cli, "repo"),
            author |-> Get(cli, "author"),
            committer |-> Get(cli, "committer"),
            stats |-> GetDefault(cli, "stats", PyBool(FALSE)),
            cli_verify_tls |-> final_verify_tls],
           environ)

\* create_command (as approve_command and comment_command) from its typer
\* options to merged
create_command_merged(cli, config, environ) ==
    LET verify_tls == GetDefault(cli, "verify_tls", PyBool(TRUE))
        no_verify_tls == GetDefault(cli, "no_verify_tls", PyBool(FALSE))
        final_verify_tls ==
            IF Truthy(no_verify_tls) THEN PyBool(FALSE) ELSE verify_tls
    IN merge_config_cli(config,
           [cli_api_base |-> Get(cli, "api_base"),
            cli_token |-> Get(cli, "token"),
            cli_owner |-> Get(cli, "owner"),
            cli_repo |-> Get(cli, "repo"),
            cli_proxy |-> Get(cli, "proxy"),
            cli_verify_tls |-> final_verify_tls],
           environ)

(* Inputs: the options given on the command line, the keys of the command's *)
(* section of the config file and the environment, at most MaxGiven of them *)
(* at once                                                                  *)

\* the dicts that hold at most n of the keys, each with one of its values
Dicts(choices, n) ==
    UNION {{d \in [S -> UNION {choices[k] : k \in S}] :
               \A k \in S : d[k] \in choices[k]} :
           S \in {T \in SUBSET DOMAIN choices : Cardinality(T) <= n}}

\* the config files: none, one whose section is not a mapping, one with section
Configs(section, choices, n) ==
    {EmptyDict, [k \in {section} |-> Text("oops")]}
    \cup {[k \in {section} |-> PyDict(d)] : d \in Dicts(choices, n)}

InitSettings ==
    LET Flag == {PyBool(TRUE)}
        Bools == {PyBool(TRUE), PyBool(FALSE)}
        ReposCli ==
            [query |-> {Text("q")}, per_page |-> {PyInt(0), PyInt(10)},
             max_pages |-> {PyInt(2)}, min_stars |-> {PyInt(0), PyInt(100)},
             language |-> {Text("go")}, sort_by |-> {Text("stars")},
             sort_direction |-> {PyStr(Asc)}, group_by_language |-> Flag,
             no_group_by_language |-> Flag, top_n |-> {PyInt(0), PyInt(5)},
             verify_tls |-> Flag, no_verify_tls |-> Flag, token |-> {Text("cli")}]
        ReposCfg ==
            [query |-> {Text("cq")}, per_page |-> {PyInt(20)}, max_pages |-> {PyInt(5)},
             min_stars |-> {PyInt(50)}, language |-> {Text("py")},
             sort_by |-> {Text("forks")}, sort_direction |-> {PyStr(Asc)},
             group_by_language |-> Bools, top_n |-> {PyInt(3)}, verify_tls |-> Bools,
             token |-> {Text("cfg")}]
        ReposEnv == [GITHUB_TOKEN |-> {Text("t3")}]
        CommitsCli ==
            [query |-> {Text("q")}, per_page |-> {PyInt(10)}, max_pages |-> {PyInt(2)},
             repo |-> {Text("o/r")}, author |-> {Text("a")}, committer |-> {Text("c")},
             stats |-> Flag, verify_tls |-> Flag, no_verify_tls |-> Flag]
        CommitsCfg ==
            [query |-> {Text("cq")}, per_page |-> {PyInt(20)}, max_pages |-> {PyInt(5)},
             repo |-> {Text("co/cr")}, author |-> {Text("ca")},
             committer |-> {Text("cc")}, stats |-> Bools, verify_tls |-> Bools]
        CommitsEnv == [GITHUB_TOKEN |-> {Text("t3")}]
        CreateCli ==
            [token |-> {Text("cli")}, owner |-> {Text("o")}, repo |-> {Text("r")},
             proxy |-> {Text("socks5h://p")}, verify_tls |-> Flag,
             no_verify_tls |-> Flag]
        CreateCfg ==
            [token |-> {Text("cfg")}, owner |-> {Text("co")}, repo |-> {Text("cr")},
             proxy |-> {Text("socks5h://cp")}, verify_tls |-> Bools]
        CreateEnv ==
            [GHE_PROJECT |-> {Text("eo")}, GHE_REPO_NAME |-> {Text("er")},
             GITHUB_TOKEN |-> {Text("t3")}]
        Given(in) ==
            Cardinality(DOMAIN in.cli) + Cardinality(DOMAIN in.environ)
            + Cardinality(DOMAIN Subcfg(in.config, in.section))
        SettingsInputsOf(cmd, section, cli, cfg, env) ==
            {in \in [command : {cmd}, section : {section}, cli : Dicts(cli, MaxGiven),
                     config : Configs(section, cfg, MaxGiven),
                     environ : Dicts(env, MaxGiven)] : Given(in) <= MaxGiven}
        SettingsInputs ==
            SettingsInputsOf("repos", "repos", ReposCli, ReposCfg, ReposEnv)
            \cup SettingsInputsOf("commits", "commits", CommitsCli, CommitsCfg, CommitsEnv)
            \cup SettingsInputsOf("create", "ghpr", CreateCli, CreateCfg, CreateEnv)
    IN  /\ PaginatorIdle
        /\ op = "none"
        /\ args \in SettingsInputs
        /\ ret = <<>>

repos_command_settings ==
    /\ op = "none"
    /\ args.command = "repos"
    /\ op' = "repos_command"
    /\ ret' = repos_command_merged(args.cli, args.config, args.environ)
    /\ UNCHANGED <<args, pvars>>

commits_command_settings ==
    /\ op = "none"
    /\ args.command = "commits"
    /\ op' = "commits_command"
    /\ ret' = commits_command_merged(args.cli, args.config, args.environ)
    /\ UNCHANGED <<args, pvars>>

create_command_settings ==
    /\ op = "none"
    /\ args.command = "create"
    /\ op' = "create_command"
    /\ ret' = create_command_merged(args.cli, args.config, args.environ)
    /\ UNCHANGED <<args, pvars>>

NextSettings ==
    \/ repos_command_settings
    \/ commits_command_settings
    \/ create_command_settings

SpecSettings == InitSettings /\ [][NextSettings]_vars

----------------------------------------------------------------------------
(* Transforms of ghsearch: apply_filters *)

\* mutant: the language filter also drops the first record it is given
apply_filters_skipping(repos, min_stars, language) ==
    LET by_stars(r) == PyOr(Get(r, "stars"), PyInt(0)).v >= min_stars.v
        filtered == IF min_stars # PyNone THEN SelectSeq(repos, by_stars)
                    ELSE repos
        lang_lower == Lower(language.v)
        by_language(r) ==
            Lower(PyOr(Get(r, "language"), PyStr(<<>>)).v) = lang_lower
    IN IF Truthy(language) /\ filtered # <<>>
       THEN SelectSeq(Tail(filtered), by_language)
       ELSE filtered

\* mutant: the star threshold is exclusive
apply_filters_strict(repos, min_stars, language) ==
    LET by_stars(r) == PyOr(Get(r, "stars"), PyInt(0)).v > min_stars.v
        filtered == IF min_stars # PyNone THEN SelectSeq(repos, by_stars)
                    ELSE repos
        lang_lower == Lower(language.v)
        by_language(r) ==
            Lower(PyOr(Get(r, "language"), PyStr(<<>>)).v) = lang_lower
    IN IF Truthy(language) THEN SelectSeq(filtered, by_language) ELSE filtered

apply_filters(repos, min_stars, language) ==
    LET by_stars(r) == PyOr(Get(r, "stars"), PyInt(0)).v >= min_stars.v
        filtered == IF min_stars # PyNone THEN SelectSeq(repos, by_stars)
                    ELSE repos
        lang_lower == Lower(language.v)
        by_language(r) ==
            Lower(PyOr(Get(r, "language"), PyStr(<<>>)).v) = lang_lower
    IN IF Truthy(language) THEN SelectSeq(filtered, by_language) ELSE filtered

(* Inputs: lists of at most MaxRepos repository records *)

Py == <<"P", "y">>
Go == <<"g", "o">>

\* a record with the given stars and language; Absent leaves the key out
Absent == [t |-> "absent"]
Repo(stars, language) ==
    [k \in {x \in {"stars", "language"} :
               (x = "stars" /\ stars # Absent)
               \/ (x = "language" /\ language # Absent)} |->
        IF k = "stars" THEN stars ELSE language]

RepoLists ==
    LET RepoRecords ==
            {Repo(st, PyStr(Py)) : st \in {Absent, PyNone, PyInt(50), PyInt(100)}}
            \cup {Repo(PyInt(100), la) : la \in {Absent, PyNone, PyStr(Py), PyStr(Go)}}
    IN  UNION {[1..n -> RepoRecords] : n \in 0..MaxRepos}

InitFilters ==
    LET MinStarsValues == {PyNone, PyInt(0), PyInt(100)}
        LanguageFilters == {PyNone, PyStr(<<>>), PyStr(<<"P", "Y">>), PyStr(Go)}
    IN  /\ PaginatorIdle
        /\ op = "none"
        /\ args \in [repos : RepoLists, min_stars : MinStarsValues,
                     language : LanguageFilters]
        /\ ret = <<>>

apply_filters_call ==
    /\ op = "none"
    /\ op' = "apply_filters"
    /\ ret' = apply_filters(args.repos, args.min_stars, args.language)
    /\ UNCHANGED <<args, pvars>>

NextFilters == apply_filters_call

SpecFilters == InitFilters /\ [][NextFilters]_vars

----------------------------------------------------------------------------
(* Transforms of ghsearch: apply_sorting *)

\* the dict without the keys whose value is Absent
WithoutAbsent(d) == [k \in {x \in DOMAIN d : d[x] # Absent} |-> d[k]]

\* ord(c) for the characters of the timestamps
CharOrd(c) ==
    CASE c = "1" -> 49
      [] c = "2" -> 50
      [] OTHER -> 0

\* a < b for two str
RECURSIVE StrLess(_, _)
StrLess(a, b) ==
    IF b = <<>> THEN FALSE
    ELSE IF a = <<>> THEN TRUE
    ELSE IF CharOrd(Head(a)) # CharOrd(Head(b))
         THEN CharOrd(Head(a)) < CharOrd(Head(b))
    ELSE StrLess(Tail(a), Tail(b))

\* a < b for two int or two str
PyLess(a, b) == IF a.t = "str" THEN StrLess(a.v, b.v) ELSE a.v < b.v

\* mutant: with reverse the result is the ascending result turned round
PySorted_turned(xs, keys, reverse) ==
    LET n == Len(xs)
        before(j, i) ==
            \/ IF reverse THEN PyLess(keys[i], keys[j])
               ELSE PyLess(keys[j], keys[i])
            \/ /\ ~PyLess(keys[i], keys[j]) /\ ~PyLess(keys[j], keys[i])
               /\ IF reverse THEN j > i ELSE j < i
        rank(i) == Cardinality({j \in 1..n : before(j, i)})
    IN [p \in 1..n |-> xs[CHOOSE i \in 1..n : rank(i) = p - 1]]

\* sorted(xs, key=..., reverse=...) with keys[i] the key of xs[i]: a stable
\* sort, and with reverse the elements of equal keys keep their order too
PySorted(xs, keys, reverse) ==
    LET n == Len(xs)
        before(j, i) ==
            \/ IF reverse THEN PyLess(keys[i], keys[j])
               ELSE PyLess(keys[j], keys[i])
            \/ ~PyLess(keys[i], keys[j]) /\ ~PyLess(keys[j], keys[i]) /\ j < i
        rank(i) == Cardinality({j \in 1..n : before(j, i)})
    IN [p \in 1..n |-> xs[CHOOSE i \in 1..n : rank(i) = p - 1]]

\* list(reversed(xs))
Reversed(xs) == [i \in 1..Len(xs) |-> xs[Len(xs) + 1 - i]]

\* mutant: the direction is taken the other way round
apply_sorting_flipped(repos, sort_by, sort_direction) ==
    LET direction == IF sort_direction = Absent THEN PyStr(Desc)
                     ELSE sort_direction
        reverse == Lower(direction.v) = Asc
        key_fn(r) ==
            CASE sort_by = Text("stars") -> PyOr(Get(r, "stars"), PyInt(0))
              [] sort_by = Text("forks") -> PyOr(Get(r, "forks"), PyInt(0))
              [] sort_by = Text("updated") ->
                    PyOr(Get(r, "updated_at"), PyStr(<<>>))
              [] sort_by = Text("created") ->
                    PyOr(Get(r, "created_at"), PyStr(<<>>))
    IN IF sort_by \notin {PyNone, Text("stars"), Text("forks"), Text("updated"),
                          Text("created")}
       THEN repos
       ELSE IF sort_by = PyNone
       THEN (IF ~reverse THEN repos ELSE Reversed(repos))
       ELSE PySorted(repos, [i \in 1..Len(repos) |-> key_fn(repos[i])], reverse)

\* sort_direction Absent: the argument is left to its default "desc"
apply_sorting(repos, sort_by, sort_direction) ==
    LET direction == IF sort_direction = Absent THEN PyStr(Desc)
                     ELSE sort_direction
        reverse == Lower(direction.v) # Asc
        key_fn(r) ==
            CASE sort_by = Text("stars") -> PyOr(Get(r, "stars"), PyInt(0))
              [] sort_by = Text("forks") -> PyOr(Get(r, "forks"), PyInt(0))
              [] sort_by = Text("updated") ->
                    PyOr(Get(r, "updated_at"), PyStr(<<>>))
              [] sort_by = Text("created") ->
                    PyOr(Get(r, "created_at"), PyStr(<<>>))
    IN IF sort_by \notin {PyNone, Text("stars"), Text("forks"), Text("updated"),
                          Text("created")}
       THEN repos
       ELSE IF sort_by = PyNone
       THEN (IF ~reverse THEN repos ELSE Reversed(repos))
       ELSE PySorted(repos, [i \in 1..Len(repos) |-> key_fn(repos[i])], reverse)

(* Inputs: lists of at most MaxRepos records with their sort fields *)

InitSorting ==
    LET SortRepo(name, stars, forks, updated_at, created_at) ==
            WithoutAbsent([full_name |-> Text(name), stars |-> stars, forks |-> forks,
                           updated_at |-> updated_at, created_at |-> created_at])
        SortRecords ==
            {SortRepo("a", PyInt(50), PyInt(1), PyStr(<<"2">>), PyStr(<<"1">>)),
             SortRepo("b", PyInt(25), PyInt(2), PyStr(<<"1">>), PyStr(<<"1", "2">>)),
             SortRepo("c", Absent, PyNone, Absent, PyNone),
             SortRepo("d", PyNone, Absent, PyNone, Absent),
             SortRepo("e", PyInt(50), PyInt(0), PyStr(<<"2">>), PyStr(<<"2">>))}
        SortLists == UNION {[1..n -> SortRecords] : n \in 0..MaxRepos}
        SortByValues ==
            {PyNone, Text("stars"), Text("forks"), Text("updated"), Text("created"),
             Text("name")}
        SortDirections == {Absent, PyStr(Asc), PyStr(Desc), PyStr(<<"A", "S", "C">>)}
    IN  /\ PaginatorIdle
        /\ op = "none"
        /\ args \in [repos : SortLists, sort_by : SortByValues,
                     sort_direction : SortDirections]
        /\ ret = <<>>

apply_sorting_call ==
    /\ op = "none"
    /\ op' = "apply_sorting"
    /\ ret' = apply_sorting(args.repos, args.sort_by, args.sort_direction)
    /\ UNCHANGED <<args, pvars>>

NextSorting == apply_sorting_call

SpecSorting == InitSorting /\ [][NextSorting]_vars

----------------------------------------------------------------------------
(* Transforms of ghsearch: group_by_language *)

\* mutant: a record is put at the front of its bucket
RECURSIVE group_by_language_loop_front(_, _)
group_by_language_loop_front(groups, repos) ==
    IF repos = <<>> THEN groups
    ELSE LET repo == Head(repos)
             lang == Get(repo, "language")
             bucket == IF lang \in DOMAIN groups THEN groups[lang] ELSE <<>>
         IN group_by_language_loop_front(
                [k \in DOMAIN groups \cup {lang} |->
                    IF k = lang THEN <<repo>> \o bucket ELSE groups[k]],
                Tail(repos))

group_by_language_front(repos) == group_by_language_loop_front(EmptyDict, repos)

\* the loop: groups.setdefault(lang, []).append(repo) for each repo
RECURSIVE group_by_language_loop(_, _)
group_by_language_loop(groups, repos) ==
    IF repos = <<>> THEN groups
    ELSE LET repo == Head(repos)
             lang == Get(repo, "language")
             bucket == IF lang \in DOMAIN groups THEN groups[lang] ELSE <<>>
         IN group_by_language_loop(
                [k \in DOMAIN groups \cup {lang} |->
                    IF k = lang THEN Append(bucket, repo) ELSE groups[k]],
                Tail(repos))

group_by_language(repos) == group_by_language_loop(EmptyDict, repos)

InitGrouping ==
    /\ PaginatorIdle
    /\ op = "none"
    /\ args \in [repos : RepoLists]
    /\ ret = <<>>

group_by_language_call ==
    /\ op = "none"
    /\ op' = "group_by_language"
    /\ ret' = group_by_language(args.repos)
    /\ UNCHANGED <<args, pvars>>

NextGrouping == group_by_language_call

SpecGrouping == InitGrouping /\ [][NextGrouping]_vars

----------------------------------------------------------------------------
(* Transforms of ghsearch: aggregate_commits_by_repo *)

\* the position in repo_stats (kept in insertion order) of the entry for
\* repo_name, 0 when there is none
IndexOfRepo(repo_stats, repo_name) ==
    IF \E i \in DOMAIN repo_stats :
           repo_stats[i]["repository_full_name"] = repo_name
    THEN CHOOSE i \in DOMAIN repo_stats :
             repo_stats[i]["repository_full_name"] = repo_name
    ELSE 0

\* mutant: the url of a repository follows the latest commit seen
RECURSIVE aggregate_commits_by_repo_loop_last(_, _)
aggregate_commits_by_repo_loop_last(repo_stats, its) ==
    IF its = <<>> THEN repo_stats
    ELSE LET item == Head(its)
             repo_name == Get(item, "repository_full_name")
             repo_url == Get(item, "repository_html_url")
             created ==
                 IF IndexOfRepo(repo_stats, repo_name) = 0
                 THEN Append(repo_stats,
                             [repository_full_name |-> repo_name,
                              repository_html_url |-> repo_url,
                              total_number_of_commits |-> PyInt(0)])
                 ELSE repo_stats
             at == IndexOfRepo(created, repo_name)
         IN IF ~Truthy(repo_name)
            THEN aggregate_commits_by_repo_loop_last(repo_stats, Tail(its))
            ELSE aggregate_commits_by_repo_loop_last(
                     [created EXCEPT
                        ![at]["repository_html_url"] = repo_url,
                        ![at]["total_number_of_commits"] = PyInt(@.v + 1)],
                     Tail(its))

aggregate_commits_by_repo_last(its) ==
    aggregate_commits_by_repo_loop_last(<<>>, its)

\* the loop: for item in items
RECURSIVE aggregate_commits_by_repo_loop(_, _)
aggregate_commits_by_repo_loop(repo_stats, its) ==
    IF its = <<>> THEN repo_stats
    ELSE LET item == Head(its)
             repo_name == Get(item, "repository_full_name")
             repo_url == Get(item, "repository_html_url")
             created ==
                 IF IndexOfRepo(repo_stats, repo_name) = 0
                 THEN Append(repo_stats,
                             [repository_full_name |-> repo_name,
                              repository_html_url |-> repo_url,
                              total_number_of_commits |-> PyInt(0)])
                 ELSE repo_stats
             at == IndexOfRepo(created, repo_name)
         IN IF ~Truthy(repo_name)
            THEN aggregate_commits_by_repo_loop(repo_stats, Tail(its))
            ELSE aggregate_commits_by_repo_loop(
                     [created EXCEPT
                        ![at]["total_number_of_commits"] = PyInt(@.v + 1)],
                     Tail(its))

\* list(repo_stats.values())
aggregate_commits_by_repo(its) == aggregate_commits_by_repo_loop(<<>>, its)

(* Inputs: lists of at most MaxRepos simplified commit records *)

Commit(repo_name, repo_url) ==
    WithoutAbsent([sha |-> Text("sha"), repository_full_name |-> repo_name,
                   repository_html_url |-> repo_url])

InitAggregate ==
    LET CommitRecords ==
            {Commit(Text("owner/repo1"), Text("u1")),
             Commit(Text("owner/repo1"), Text("u2")),
             Commit(Text("owner/repo2"), Text("u3")),
             Commit(Text("owner/repo2"), PyNone),
             Commit(Absent, Text("u1")),
             Commit(PyNone, Text("u1")),
             Commit(PyStr(<<>>), Absent)}
        CommitLists == UNION {[1..n -> CommitRecords] : n \in 0..MaxRepos}
    IN  /\ PaginatorIdle
        /\ op = "none"
        /\ args \in [items : CommitLists]
        /\ ret = <<>>

aggregate_commits_by_repo_call ==
    /\ op = "none"
    /\ op' = "aggregate_commits_by_repo"
    /\ ret' = aggregate_commits_by_repo(args.items)
    /\ UNCHANGED <<args, pvars>>

NextAggregate == aggregate_commits_by_repo_call

SpecAggregate == InitAggregate /\ [][NextAggregate]_vars

----------------------------------------------------------------------------
(* Normalizers of ghsearch: simplify_repos, simplify_code_results and       *)
(* simplify_commits_results.  The outcome of the latter two holds whether   *)
(* the call raised and the list it returned.                                *)

\* the record simplify_repos appends for one raw item
simplify_repos_item(item) ==
    LET license_info == Get(item, "license")
        license_entry ==
            IF license_info.t = "dict"
            THEN PyDict([key |-> Get(license_info.v, "key"),
                         name |-> Get(license_info.v, "name"),
                         spdx_id |-> Get(license_info.v, "spdx_id")])
            ELSE PyNone
    IN [full_name |-> Get(item, "full_name"),
        html_url |-> Get(item, "html_url"),
        description |-> Get(item, "description"),
        stars |-> GetDefault(item, "stargazers_count", PyInt(0)),
        watchers |-> GetDefault(item, "watchers_count", PyInt(0)),
        forks |-> GetDefault(item, "forks_count", PyInt(0)),
        language |-> Get(item, "language"),
        archived |-> GetDefault(item, "archived", PyBool(FALSE)),
        fork |-> GetDefault(item, "fork", PyBool(FALSE)),
        topics |-> PyOr(Get(item, "topics"), PyList(<<>>)),
        license |-> license_entry,
        default_branch |-> Get(item, "default_branch"),
        pushed_at |-> Get(item, "pushed_at"),
        updated_at |-> Get(item, "updated_at"),
        created_at |-> Get(item, "created_at"),
        score |-> Get(item, "score")]

simplify_repos(its) == [i \in 1..Len(its) |-> simplify_repos_item(its[i])]

\* s.split("\n")[0]
RECURSIVE FirstLine(_)
FirstLine(s) ==
    IF s = <<>> \/ Head(s) = "\n" THEN <<>>
    ELSE <<Head(s)>> \o FirstLine(Tail(s))

\* the record simplify_code_results appends for one raw item; repo.get raises
\* AttributeError when repo is not a dict
simplify_code_results_item(item) ==
    LET repo == PyOr(Get(item, "repository"), PyDict(EmptyDict))
    IN IF repo.t # "dict" THEN Raises
       ELSE [name |-> Get(item, "name"),
             path |-> Get(item, "path"),
             sha |-> Get(item, "sha"),
             html_url |-> Get(item, "html_url"),
             repository_full_name |-> Get(repo.v, "full_name"),
             repository_html_url |-> Get(repo.v, "html_url")]

simplify_code_results(its) ==
    IF \E i \in 1..Len(its) : simplify_code_results_item(its[i]) = Raises
    THEN [raised |-> TRUE, value |-> <<>>]
    ELSE [raised |-> FALSE,
          value |-> [i \in 1..Len(its) |-> simplify_code_results_item(its[i])]]

\* the record simplify_commits_results appends for one raw item; commit.get,
\* author.get, committer.get and repo.get raise AttributeError on a value that
\* is not a dict
simplify_commits_results_item(item) ==
    LET commit == PyOr(Get(item, "commit"), PyDict(EmptyDict))
        author == PyOr(Get(commit.v, "author"), PyDict(EmptyDict))
        committer == PyOr(Get(commit.v, "committer"), PyDict(EmptyDict))
        repo == PyOr(Get(item, "repository"), PyDict(EmptyDict))
        message == GetDefault(commit.v, "message", PyStr(<<>>))
    IN IF commit.t # "dict" THEN Raises
       ELSE IF author.t # "dict" \/ committer.t # "dict" \/ repo.t # "dict"
       THEN Raises
       ELSE [sha |-> Get(item, "sha"),
             html_url |-> Get(item, "html_url"),
             url |-> Get(item, "url"),
             message |-> IF Truthy(Get(commit.v, "message"))
                         THEN PyStr(FirstLine(message.v)) ELSE PyNone,
             author_name |-> Get(author.v, "name"),
             author_email |-> Get(author.v, "email"),
             author_date |-> Get(author.v, "date"),
             committer_name |-> Get(committer.v, "name"),
             committer_email |-> Get(committer.v, "email"),
             committer_date |-> Get(committer.v, "date"),
             repository_full_name |-> Get(repo.v, "full_name"),
             repository_html_url |-> Get(repo.v, "html_url"),
             score |-> Get(item, "score")]

simplify_commits_results(its) ==
    IF \E i \in 1..Len(its) : simplify_commits_results_item(its[i]) = Raises
    THEN [raised |-> TRUE, value |-> <<>>]
    ELSE [raised |-> FALSE,
          value |-> [i \in 1..Len(its) |-> simplify_commits_results_item(its[i])]]

(* Inputs: lists of at most MaxRepos raw items of each search; a sub-object *)
(* is absent, null, an object, or a string or number in its place           *)

InitSimplify ==
    LET RawRepo(name, stargazers_count, watchers_count, forks_count, topics, license) ==
            WithoutAbsent([full_name |-> Text(name),
                           stargazers_count |-> stargazers_count,
                           watchers_count |-> watchers_count,
                           forks_count |-> forks_count,
                           language |-> Text("Python"),
                           topics |-> topics, license |-> license])
        MitLicense ==
            PyDict([key |-> Text("mit"), name |-> Text("MIT License"),
                    spdx_id |-> Text("MIT"), url |-> Text("u")])
        RawRepos ==
            {RawRepo("a", PyInt(5), PyInt(3), PyInt(2), PyList(<<Text("astro")>>),
                     MitLicense),
             RawRepo("b", Absent, Absent, Absent, Absent, Absent),
             RawRepo("c", PyNone, PyNone, PyNone, PyNone, PyNone),
             RawRepo("d", PyInt(0), PyInt(1), PyNone, PyList(<<>>), PyDict(EmptyDict)),
             RawRepo("e", PyInt(1), PyInt(1), PyInt(1), Absent, Text("MIT"))}
        Repository == PyDict([full_name |-> Text("o/r"), html_url |-> Text("u")])
        Person == PyDict([name |-> Text("al"), email |-> Text("al@x"),
                          date |-> Text("2024")])
        RawCode(repository) ==
            WithoutAbsent([name |-> Text("a.py"), path |-> Text("src/a.py"),
                           sha |-> Text("sha"), repository |-> repository])
        RawCodes ==
            {RawCode(r) : r \in {Absent, PyNone, Repository, PyDict(EmptyDict),
                                 PyStr(<<>>), PyInt(0), Text("o/r"), PyInt(7)}}
        RawCommit(commit, repository) ==
            WithoutAbsent([sha |-> Text("sha"), commit |-> commit,
                           repository |-> repository])
        Inner(author, committer) ==
            PyDict(WithoutAbsent([message |-> PyStr(<<"f", "i", "x", "\n", "b">>),
                                  author |-> author, committer |-> committer]))
        RawCommits ==
            {RawCommit(Inner(Person, Person), Repository),
             RawCommit(Inner(Absent, PyNone), PyNone),
             RawCommit(Inner(Text("al"), Person), Repository),
             RawCommit(Inner(Person, PyInt(7)), Repository),
             RawCommit(Inner(Person, Person), Text("o/r")),
             RawCommit(Text("fix"), Repository),
             RawCommit(PyNone, Absent),
             RawCommit(Absent, Repository)}
        Lists(raw) == UNION {[1..n -> raw] : n \in 0..MaxRepos}
    IN  /\ PaginatorIdle
        /\ op = "none"
        /\ args \in [fn : {"simplify_repos"}, items : Lists(RawRepos)]
                     \cup [fn : {"simplify_code_results"}, items : Lists(RawCodes)]
                     \cup [fn : {"simplify_commits_results"},
                           items : Lists(RawCommits)]
        /\ ret = <<>>

simplify_repos_call ==
    /\ op = "none"
    /\ args.fn = "simplify_repos"
    /\ op' = "simplify_repos"
    /\ ret' = simplify_repos(args.items)
    /\ UNCHANGED <<args, pvars>>

simplify_code_results_call ==
    /\ op = "none"
    /\ args.fn = "simplify_code_results"
    /\ op' = "simplify_code_results"
    /\ ret' = simplify_code_results(args.items)
    /\ UNCHANGED <<args, pvars>>

simplify_commits_results_call ==
    /\ op = "none"
    /\ args.fn = "simplify_commits_results"
    /\ op' = "simplify_commits_results"
    /\ ret' = simplify_commits_results(args.items)
    /\ UNCHANGED <<args, pvars>>

NextSimplify ==
    \/ simplify_repos_call
    \/ simplify_code_results_call
    \/ simplify_commits_results_call

SpecSimplify == InitSimplify /\ [][NextSimplify]_vars

----------------------------------------------------------------------------
(* The query of code and commit search: final_query of search_code_async   *)
(* and search_commits_async, the q of each page request, and the query the *)
(* result and the report carry.  The call frame is kept in ret.            *)

\* the characters of a literal
RepoQ == <<" ", "r", "e", "p", "o", ":">>
LanguageQ == <<" ", "l", "a", "n", "g", "u", "a", "g", "e", ":">>
PathQ == <<" ", "p", "a", "t", "h", ":">>
AuthorQ == <<" ", "a", "u", "t", "h", "o", "r", ":">>
CommitterQ == <<" ", "c", "o", "m", "m", "i", "t", "t", "e", "r", ":">>

\* mutant: the path qualifier is appended whether or not a path was supplied
search_code_async_final_query_always(query, repo, language, path) ==
    LET q1 == IF Truthy(repo) THEN query.v \o RepoQ \o repo.v ELSE query.v
        q2 == IF Truthy(language) THEN q1 \o LanguageQ \o language.v ELSE q1
        q3 == q2 \o PathQ \o (IF path = PyNone THEN <<>> ELSE path.v)
    IN PyStr(q3)

search_code_async_final_query(query, repo, language, path) ==
    LET q1 == IF Truthy(repo) THEN query.v \o RepoQ \o repo.v ELSE query.v
        q2 == IF Truthy(language) THEN q1 \o LanguageQ \o language.v ELSE q1
        q3 == IF Truthy(path) THEN q2 \o PathQ \o path.v ELSE q2
    IN PyStr(q3)

search_commits_async_final_query(query, repo, author, committer) ==
    LET q1 == IF Truthy(repo) THEN query.v \o RepoQ \o repo.v ELSE query.v
        q2 == IF Truthy(author) THEN q1 \o AuthorQ \o author.v ELSE q1
        q3 == IF Truthy(committer) THEN q2 \o CommitterQ \o committer.v ELSE q2
    IN PyStr(q3)

build_code_report(raw, its, api_base, repo, language, path) ==
    [query |-> raw["query"],
     api_base |-> api_base,
     total_count |-> Get(raw, "total_count"),
     incomplete_results |-> Get(raw, "incomplete_results"),
     returned |-> PyInt(Len(its)),
     filters |-> [repo |-> repo, language |-> language, path |-> path],
     results |-> its]

build_commits_report(raw, its, api_base, repo, author, committer, stats) ==
    LET report ==
            [query |-> raw["query"],
             api_base |-> api_base,
             total_count |-> Get(raw, "total_count"),
             incomplete_results |-> Get(raw, "incomplete_results"),
             returned |-> PyInt(Len(its)),
             filters |-> [repo |-> repo, author |-> author,
                          committer |-> committer]]
    IN IF Truthy(stats)
       THEN With(report, "repositories", aggregate_commits_by_repo(its))
       ELSE With(report, "commits", its)

(* Inputs: a base query and three qualifiers, each absent, empty or given *)

InitQuery ==
    LET BaseQueries == {PyStr(<<"f", "i", "x">>), PyStr(<<"a", " ", "b">>)}
        Qualifier(value) == {PyNone, PyStr(<<>>), PyStr(value)}
        QueryInputs ==
            [command : {"code"}, query : BaseQueries, max_pages : 1..MaxPages,
             repo : Qualifier(<<"o", "/", "r">>), language : Qualifier(<<"g", "o">>),
             path : Qualifier(<<"s", "r", "c">>)]
            \cup [command : {"commits"}, query : BaseQueries, max_pages : 1..MaxPages,
                  repo : Qualifier(<<"o", "/", "r">>), author : Qualifier(<<"a", "l">>),
                  committer : Qualifier(<<"b", "o">>)]
    IN  /\ PaginatorIdle
        /\ op = "none"
        /\ args \in QueryInputs
        /\ ret = <<>>

\* code_command calls search_code_async, which builds final_query
search_code_async_query ==
    /\ op = "none"
    /\ args.command = "code"
    /\ op' = "search_code_async"
    /\ ret' = [final_query |->
                  search_code_async_final_query(args.query, args.repo,
                                                args.language, args.path),
               page |-> 1, params |-> <<>>, raw |-> NoResult,
               report |-> NoResult]
    /\ UNCHANGED <<args, pvars>>

search_commits_async_query ==
    /\ op = "none"
    /\ args.command = "commits"
    /\ op' = "search_commits_async"
    /\ ret' = [final_query |->
                  search_commits_async_final_query(args.query, args.repo,
                                                   args.author, args.committer),
               page |-> 1, params |-> <<>>, raw |-> NoResult,
               report |-> NoResult]
    /\ UNCHANGED <<args, pvars>>

\* one pass of the loop: the request for the page with its params; the
\* response either lets the loop go on or ends it
search_page_query ==
    /\ op \in {"search_code_async", "search_commits_async"}
    /\ ret.raw = NoResult
    /\ ret.page < args.max_pages + 1
    /\ \E go_on \in BOOLEAN :
         ret' = [ret EXCEPT
                   !.params = Append(@, [q |-> ret.final_query,
                                         page |-> ret.page]),
                   !.page = IF go_on THEN @ + 1 ELSE args.max_pages + 1]
    /\ UNCHANGED <<op, args, pvars>>

\* the loop is over: the paginator returns and the command builds its report
search_return_query ==
    /\ op \in {"search_code_async", "search_commits_async"}
    /\ ret.raw = NoResult
    /\ ret.page = args.max_pages + 1
    /\ LET raw == [query |-> ret.final_query]
       IN ret' = [ret EXCEPT
                    !.raw = raw,
                    !.report =
                        IF op = "search_code_async"
                        THEN build_code_report(raw, <<>>, DefaultApiBase,
                                               args.repo, args.language,
                                               args.path)
                        ELSE build_commits_report(raw, <<>>, DefaultApiBase,
                                                  args.repo, args.author,
                                                  args.committer,
                                                  PyBool(FALSE))]
    /\ UNCHANGED <<op, args, pvars>>

NextQuery ==
    \/ search_code_async_query
    \/ search_commits_async_query
    \/ search_page_query
    \/ search_return_query

SpecQuery == InitQuery /\ [][NextQuery]_vars

----------------------------------------------------------------------------
(* The diagnostic echo: build_headers and print_debug_info (the same code  *)
(* in ghsearch and ghpr).  A header set is the sequence of its (key, value) *)
(* pairs in insertion order; the echo is the sequence of strings printed to *)
(* the error stream.                                                        *)

Bearer == <<"B", "e", "a", "r", "e", "r", " ">>
Authorization ==
    <<"A", "u", "t", "h", "o", "r", "i", "z", "a", "t", "i", "o", "n">>
Ellipsis == <<".", ".", ".">>

\* s.startswith(prefix)
StartsWith(s, prefix) ==
    Len(prefix) <= Len(s) /\ SubSeq(s, 1, Len(prefix)) = prefix

\* s[:n] and s[n:]
Prefix(s, n) == SubSeq(s, 1, IF n < Len(s) THEN n ELSE Len(s))
Suffix(s, n) == SubSeq(s, n + 1, Len(s))

\* sep.join(parts)
RECURSIVE JoinWith(_, _)
JoinWith(sep, parts) ==
    IF parts = <<>> THEN <<>>
    ELSE IF Len(parts) = 1 THEN parts[1]
    ELSE parts[1] \o sep \o JoinWith(sep, Tail(parts))

\* the fixed headers are kept as one chunk each
build_headers(tool, token) ==
    LET fixed == <<[key |-> <<"Accept">>,
                    value |-> <<IF tool = "ghpr"
                                THEN "application/vnd.github+json"
                                ELSE "application/vnd.github.mercy-preview+json, application/vnd.github.cloak-preview+json">>],
                   [key |-> <<"X-GitHub-Api-Version">>,
                    value |-> <<"2022-11-28">>],
                   [key |-> <<"User-Agent">>,
                    value |-> <<IF tool = "ghpr" THEN "ghpr-cli"
                                ELSE "ghsearch-cli">>]>>
    IN IF Truthy(token)
       THEN Append(fixed, [key |-> Authorization, value |-> Bearer \o token.v])
       ELSE fixed

\* what the header listing shows for one header
sanitized_value(key, value) ==
    IF Lower(key) = Lower(Authorization)
    THEN IF StartsWith(value, Bearer)
         THEN LET token == Suffix(value, 7)
              IN IF Len(token) > 8 THEN Bearer \o Prefix(token, 8) \o Ellipsis
                 ELSE value
         ELSE IF Len(value) > 20 THEN Prefix(value, 20) \o Ellipsis ELSE value
    ELSE value

\* params and json_data: None or the text they are printed as, one chunk
print_debug_info(method, url, headers, params, json_data, debug) ==
    LET full_url == IF Truthy(params) THEN url \o <<"?">> \o params.v ELSE url
        listing == [i \in 1..Len(headers) |->
                       <<" ", " ">> \o headers[i].key \o <<":", " ">>
                       \o sanitized_value(headers[i].key, headers[i].value)]
        header_parts ==
            [i \in 1..(2 * Len(headers)) |->
                IF i % 2 = 1 THEN <<"-", "H">>
                ELSE headers[i \div 2].key \o <<":", " ">>
                     \o headers[i \div 2].value]
        data_parts ==
            IF Truthy(json_data)
            THEN <<<<"-", "d">>, json_data.v, <<"-", "H">>,
                   <<"Content-Type: application/json">>>>
            ELSE <<>>
        curl_parts == <<<<"curl">>, <<"-", "X">>, method>> \o header_parts
                      \o data_parts \o <<full_url>>
        curl_cmd == JoinWith(<<" ", "\\", "\n", " ", " ">>, curl_parts)
    IN IF ~debug THEN <<>>
       ELSE <<<<"DEBUG: API Request Details">>, <<"Method: ">> \o method,
              <<"URL: ">> \o url>>
            \o (IF Truthy(params) THEN <<<<"Full URL: ">> \o full_url>> ELSE <<>>)
            \o <<<<"Headers:">>>> \o listing
            \o (IF Truthy(json_data)
                THEN <<<<"Request Body (JSON):">>, json_data.v>> ELSE <<>>)
            \o (IF Truthy(params)
                THEN <<<<"Query Parameters:">>, params.v>> ELSE <<>>)
            \o <<<<"Equivalent curl command:">>, curl_cmd>>

(* Inputs: tokens of every length up to MaxTokenLen over two characters *)

InitDebug ==
    LET Tokens ==
            {PyNone}
            \cup {PyStr(t) : t \in UNION {[1..n -> {"a", "b"}] : n \in 0..MaxTokenLen}}
        DebugInputs ==
            [tool : {"ghsearch"}, method : {<<"GET">>}, token : Tokens,
             params : {Text("q=fix&per_page=50&page=1")}, json_data : {PyNone},
             debug : BOOLEAN]
            \cup [tool : {"ghpr"}, method : {<<"POST">>}, token : Tokens,
                  params : {PyNone}, json_data : {Text("{\"event\": \"APPROVE\"}")},
                  debug : BOOLEAN]
    IN  /\ PaginatorIdle
        /\ op = "none"
        /\ args \in DebugInputs
        /\ ret = <<>>

print_debug_info_call ==
    /\ op = "none"
    /\ op' = "print_debug_info"
    /\ ret' = print_debug_info(args.method, <<"https://api.github.com/x">>,
                               build_headers(args.tool, args.token),
                               args.params, args.json_data, args.debug)
    /\ UNCHANGED <<args, pvars>>

NextDebug == print_debug_info_call

SpecDebug == InitDebug /\ [][NextDebug]_vars

----------------------------------------------------------------------------
(* The commands from their options to their exit: the validation of         *)
(* repos_command (validate_sort_options) and of create_command,             *)
(* approve_command and comment_command of ghpr, and the one request the     *)
(* ghpr commands make through make_request.  The inputs are in args; sent,  *)
(* responses, report_emitted and exit_status record what the command did.   *)

\* mutant: the sort direction is not looked at
validate_sort_options_lax(sort_by, sort_direction) ==
    sort_by \in {PyNone, Text("stars"), Text("forks"), Text("updated"),
                 Text("created")}

\* the first component of the returned pair
validate_sort_options(sort_by, sort_direction) ==
    IF sort_by \notin {PyNone, Text("stars"), Text("forks"), Text("updated"),
                       Text("created")}
    THEN FALSE
    ELSE IF Lower(sort_direction.v) \notin {Asc, Desc} THEN FALSE
    ELSE TRUE

\* the checks of create_command and approve_command on merged
create_command_valid(merged) ==
    IF ~Truthy(merged.owner) \/ ~Truthy(merged.repo) THEN FALSE
    ELSE IF ~Truthy(merged.token) THEN FALSE
    ELSE TRUE

\* the checks of comment_command on merged and comment_type
comment_command_valid(merged, comment_type) ==
    IF ~Truthy(merged.owner) \/ ~Truthy(merged.repo) THEN FALSE
    ELSE IF ~Truthy(merged.token) THEN FALSE
    ELSE IF comment_type \notin {"review", "issue"} THEN FALSE
    ELSE TRUE

(* Inputs *)

InitCommands ==
    LET ReposCommandInputs ==
            [command : {"repos"}, section : {"repos"}, comment_type : {"review"},
             cli : {With(c, "max_pages", PyInt(1)) :
                       c \in Dicts([sort_by |-> {Text("stars"), Text("name")},
                                    sort_direction |-> {PyStr(Asc), PyStr(<<"u", "p">>)}],
                                   2)},
             config : Configs("repos",
                              [sort_by |-> {Text("forks"), Text("bogus")},
                               sort_direction |-> {PyStr(<<"A", "S", "C">>),
                                                   PyStr(<<"d", "o", "w", "n">>)}], 2),
             environ : {EmptyDict}]
        GhprCommandInputs ==
            [command : {"create", "approve", "comment"}, section : {"ghpr"},
             comment_type : {"review", "issue", "inline"},
             cli : Dicts([token |-> {Text("cli")}, owner |-> {Text("o")},
                          repo |-> {Text("r"), PyStr(<<>>)}], 3),
             config : Configs("ghpr", [token |-> {Text("cfg")}, owner |-> {Text("co")}],
                              2),
             environ : Dicts([GHE_REPO_NAME |-> {Text("er")},
                              GITHUB_TOKEN |-> {Text("t3")}], 2)]
        CommandInputs ==
            ReposCommandInputs
            \cup {in \in GhprCommandInputs :
                     in.command # "comment" => in.comment_type = "review"}
    IN  /\ PaginatorIdle
        /\ op = "none"
        /\ args \in CommandInputs
        /\ ret = <<>>

\* repos_command up to the first pass of search_repositories' loop, or to its
\* exit when the merged sort options are not valid
repos_command_checked ==
    /\ pc = "idle"
    /\ args.command = "repos"
    /\ command' = "repos"
    /\ LET merged == repos_command_merged(args.cli, args.config, args.environ)
       IN IF ~validate_sort_options(merged.sort_by, merged.sort_direction)
          THEN /\ pc' = "raised"
               /\ exit_status' = "nonzero"
               /\ UNCHANGED <<max_pages, page, items, total_count,
                              incomplete_results, session>>
          ELSE /\ max_pages' = merged.max_pages.v
               /\ items' = <<>>
               /\ total_count' = PyNone
               /\ incomplete_results' = FALSE
               /\ session' = "open"
               /\ page' = 1
               /\ pc' = "loop"
               /\ UNCHANGED exit_status
    /\ UNCHANGED <<client, sent, inflight, responses, result, report_emitted,
                   fvars>>

\* create_command up to make_request, or to its exit when a check fails
create_command ==
    /\ pc = "idle"
    /\ args.command = "create"
    /\ command' = "create"
    /\ LET merged == create_command_merged(args.cli, args.config, args.environ)
       IN IF ~create_command_valid(merged)
          THEN pc' = "raised" /\ exit_status' = "nonzero"
          ELSE pc' = "calling" /\ UNCHANGED exit_status
    /\ UNCHANGED <<max_pages, page, items, total_count, incomplete_results,
                   session, client, sent, inflight, responses, result,
                   report_emitted, fvars>>

\* approve_command: the same merge and the same checks
approve_command ==
    /\ pc = "idle"
    /\ args.command = "approve"
    /\ command' = "approve"
    /\ LET merged == create_command_merged(args.cli, args.config, args.environ)
       IN IF ~create_command_valid(merged)
          THEN pc' = "raised" /\ exit_status' = "nonzero"
          ELSE pc' = "calling" /\ UNCHANGED exit_status
    /\ UNCHANGED <<max_pages, page, items, total_count, incomplete_results,
                   session, client, sent, inflight, responses, result,
                   report_emitted, fvars>>

\* comment_command: the comment type is checked too
comment_command ==
    /\ pc = "idle"
    /\ args.command = "comment"
    /\ command' = "comment"
    /\ LET merged == create_command_merged(args.cli, args.config, args.environ)
       IN IF ~comment_command_valid(merged, args.comment_type)
          THEN pc' = "raised" /\ exit_status' = "nonzero"
          ELSE pc' = "calling" /\ UNCHANGED exit_status
    /\ UNCHANGED <<max_pages, page, items, total_count, incomplete_results,
                   session, client, sent, inflight, responses, result,
                   report_emitted, fvars>>

\* make_request calls requests.request
make_request_call ==
    /\ command \in {"create", "approve", "comment"}
    /\ pc = "calling"
    /\ sent' = Append(sent, 1)
    /\ inflight' = inflight \cup {1}
    /\ pc' = "awaiting"
    /\ UNCHANGED <<command, max_pages, page, items, total_count,
                   incomplete_results, session, client, responses, result,
                   report_emitted, exit_status, fvars>>

\* requests.request returns or raises; raise_for_status; every
\* RequestException ends in typer.Exit(code=1); the command then decodes the
\* body with response.json() and prints its summary
make_request_response ==
    LET \* what requests.request of a ghpr command may come back with
        MutationResponses ==
            {TransportError}
            \cup {HttpResponse(s, d, PyNone, PyNone, 0, FALSE) :
                    s \in Statuses \cup {201}, d \in BOOLEAN}
    IN  /\ command \in {"create", "approve", "comment"}
        /\ pc = "awaiting"
        /\ \E resp \in MutationResponses :
            /\ responses' = Append(responses, resp)
            /\ inflight' = inflight \ {1}
            /\ IF resp.transport_error \/ (resp.status >= 400 /\ resp.status < 600)
               THEN /\ pc' = "raised"
                    /\ exit_status' = "nonzero"
                    /\ UNCHANGED report_emitted
               ELSE IF ~resp.decodable
               THEN /\ pc' = "raised"
                    /\ exit_status' = "nonzero"
                    /\ UNCHANGED report_emitted
               ELSE /\ pc' = "returned"
                    /\ report_emitted' = TRUE
                    /\ exit_status' = "zero"
        /\ UNCHANGED <<command, max_pages, page, items, total_count,
                       incomplete_results, session, client, sent, result, fvars>>

NextCommands ==
    \/ repos_command_checked
    \/ search_repositories_request
    \/ search_repositories_response
    \/ create_command
    \/ approve_command
    \/ comment_command
    \/ make_request_call
    \/ make_request_response

SpecCommands == InitCommands /\ [][NextCommands]_vars

----------------------------------------------------------------------------
(* load_config of ghsearch and of ghpr.  The file is given by what the file *)
(* system and the two parsers answer for it: whether it exists, whether     *)
(* read_text can decode it, whether its text is blank, and what             *)
(* yaml.safe_load and json.loads make of the text ("raises" or a value).    *)
(* The outcome holds the value returned (or raised) and the warnings        *)
(* written to the error stream.                                             *)

LoadReturn(value, warnings) ==
    [raised |-> FALSE, value |-> value, warnings |-> warnings]
LoadRaise == [raised |-> TRUE, value |-> NoResult, warnings |-> <<>>]

ghsearch_load_config(path_given, file) ==
    IF ~file.exists
    THEN LoadReturn(EmptyDict,
                    IF path_given THEN <<"Config file not found">> ELSE <<>>)
    ELSE IF ~file.decodable THEN LoadRaise
    ELSE IF file.blank THEN LoadReturn(EmptyDict, <<>>)
    ELSE LET failed == LoadReturn(EmptyDict, <<"Failed to parse config file">>)
             \* one pass of: for loader in (yaml.safe_load, json.loads)
             pass(parsed, otherwise) ==
                 IF parsed = Raises THEN otherwise
                 ELSE IF parsed = PyNone THEN LoadReturn(EmptyDict, <<>>)
                 ELSE IF parsed.t = "dict" THEN LoadReturn(parsed.v, <<>>)
                 ELSE failed
         IN pass(file.yaml, pass(file.json, failed))

ghpr_load_config(path_given, file) ==
    IF ~file.exists
    THEN LoadReturn(EmptyDict,
                    IF path_given THEN <<"Config file not found">> ELSE <<>>)
    ELSE IF ~file.decodable THEN LoadRaise
    ELSE IF file.blank THEN LoadReturn(EmptyDict, <<>>)
    ELSE LET parsed == IF file.yaml # Raises THEN file.yaml ELSE file.json
         IN IF parsed = Raises
            THEN LoadReturn(EmptyDict, <<"Failed to parse config file">>)
            ELSE IF parsed = PyNone THEN LoadReturn(EmptyDict, <<>>)
            ELSE IF parsed.t = "dict" THEN LoadReturn(parsed.v, <<>>)
            ELSE LoadReturn(EmptyDict, <<>>)

(* Inputs *)

InitLoad ==
    LET ParseOutcomes ==
            {Raises, PyNone, PyDict(EmptyDict),
             PyDict([repos |-> PyDict([query |-> Text("q")])]),
             PyList(<<Text("a")>>), Text("just text")}
        ConfigFiles ==
            {[exists |-> FALSE, decodable |-> FALSE, blank |-> FALSE,
              yaml |-> Raises, json |-> Raises],
             [exists |-> TRUE, decodable |-> FALSE, blank |-> FALSE,
              yaml |-> Raises, json |-> Raises],
             [exists |-> TRUE, decodable |-> TRUE, blank |-> TRUE,
              yaml |-> PyNone, json |-> Raises]}
            \cup [exists : {TRUE}, decodable : {TRUE}, blank : {FALSE},
                  yaml : ParseOutcomes, json : ParseOutcomes]
    IN  /\ PaginatorIdle
        /\ op = "none"
        /\ args \in [path_given : BOOLEAN, file : ConfigFiles]
        /\ ret = <<>>

ghsearch_load_config_call ==
    /\ op = "none"
    /\ op' = "ghsearch.load_config"
    /\ ret' = ghsearch_load_config(args.path_given, args.file)
    /\ UNCHANGED <<args, pvars>>

ghpr_load_config_call ==
    /\ op = "none"
    /\ op' = "ghpr.load_config"
    /\ ret' = ghpr_load_config(args.path_given, args.file)
    /\ UNCHANGED <<args, pvars>>

NextLoad ==
    \/ ghsearch_load_config_call
    \/ ghpr_load_config_call

SpecLoad == InitLoad /\ [][NextLoad]_vars

----------------------------------------------------------------------------
(* The reports: repos_command from the simplified records to the report    *)
(* (apply_filters, apply_sorting, build_repos_report), and code_command and *)
(* commits_command from theirs (build_code_report, build_commits_report)    *)

\* mutant: the records are grouped as they came, without the truncation
build_repos_report_untruncated(raw, repos, group_by_lang, top_n, min_stars, language, sort_by, sort_direction, api_base) ==
    LET processed ==
            IF Truthy(top_n) /\ top_n.v > 0 THEN Prefix(repos, top_n.v)
            ELSE repos
        report ==
            [query |-> raw["query"],
             api_base |-> api_base,
             total_count |-> Get(raw, "total_count"),
             incomplete_results |-> Get(raw, "incomplete_results"),
             returned |-> PyInt(Len(processed)),
             filters |-> [min_stars |-> min_stars, language |-> language],
             sorting |-> [sort_by |-> sort_by,
                          sort_direction |-> sort_direction]]
    IN IF Truthy(group_by_lang)
       THEN With(With(report, "group_by", "language"),
                 "groups", group_by_language(repos))
       ELSE With(report, "repositories", processed)

build_repos_report(raw, repos, group_by_lang, top_n, min_stars, language, sort_by, sort_direction, api_base) ==
    LET processed ==
            IF Truthy(top_n) /\ top_n.v > 0 THEN Prefix(repos, top_n.v)
            ELSE repos
        report ==
            [query |-> raw["query"],
             api_base |-> api_base,
             total_count |-> Get(raw, "total_count"),
             incomplete_results |-> Get(raw, "incomplete_results"),
             returned |-> PyInt(Len(processed)),
             filters |-> [min_stars |-> min_stars, language |-> language],
             sorting |-> [sort_by |-> sort_by,
                          sort_direction |-> sort_direction]]
    IN IF Truthy(group_by_lang)
       THEN With(With(report, "group_by", "language"),
                 "groups", group_by_language(processed))
       ELSE With(report, "repositories", processed)

(* Inputs: the simplified records of a search and the merged settings *)

InitReport ==
    LET ReportRecords ==
            {Repo(PyInt(100), PyStr(Py)), Repo(PyInt(50), PyStr(Py)),
             Repo(PyInt(100), PyStr(Go)), Repo(PyInt(100), PyNone)}
        ReportLists == UNION {[1..n -> ReportRecords] : n \in 0..MaxRepos}
        TopNValues == {PyNone, PyInt(-1), PyInt(0), PyInt(1), PyInt(2)}
        CodeRecords == {[name |-> Text("a.py")], [name |-> Text("b.py")]}
        CommitRecords ==
            {Commit(Text("owner/repo1"), Text("u1")),
             Commit(Text("owner/repo2"), Text("u2")),
             Commit(PyNone, Text("u1"))}
        ReportInputs ==
            [command : {"code"},
             simplified : UNION {[1..n -> CodeRecords] : n \in 0..MaxRepos}]
            \cup
            [command : {"commits"},
             simplified : UNION {[1..n -> CommitRecords] : n \in 0..MaxRepos},
             stats : {PyBool(FALSE), PyBool(TRUE)}]
            \cup
            [command : {"repos"},
             simplified : ReportLists,
             min_stars : {PyNone, PyInt(100)},
             language : {PyNone, PyStr(<<"P", "Y">>)},
             sort_by : {PyNone, Text("stars")},
             sort_direction : {PyStr(Asc), PyStr(Desc)},
             group_by_language : {PyBool(FALSE), PyBool(TRUE)},
             top_n : TopNValues]
    IN  /\ PaginatorIdle
        /\ op = "none"
        /\ args \in ReportInputs
        /\ ret = <<>>

\* repos_command after simplify_repos: filter, sort, build the report
repos_command_report ==
    /\ op = "none"
    /\ args.command = "repos"
    /\ op' = "repos_command"
    /\ LET raw == [query |-> Text("q"), total_count |-> PyInt(7),
                   incomplete_results |-> PyBool(FALSE)]
           filtered == apply_filters(args.simplified, args.min_stars,
                                     args.language)
           sorted_repos == apply_sorting(filtered, args.sort_by,
                                         args.sort_direction)
       IN ret' = build_repos_report(raw, sorted_repos, args.group_by_language,
                                    args.top_n, args.min_stars, args.language,
                                    args.sort_by, args.sort_direction,
                                    DefaultApiBase)
    /\ UNCHANGED <<args, pvars>>

\* code_command after simplify_code_results
code_command_report ==
    /\ op = "none"
    /\ args.command = "code"
    /\ op' = "code_command"
    /\ LET raw == [query |-> Text("q"), total_count |-> PyInt(7),
                   incomplete_results |-> PyBool(FALSE)]
       IN ret' = build_code_report(raw, args.simplified, DefaultApiBase,
                                   PyNone, PyNone, PyNone)
    /\ UNCHANGED <<args, pvars>>

\* commits_command after simplify_commits_results
commits_command_report ==
    /\ op = "none"
    /\ args.command = "commits"
    /\ op' = "commits_command"
    /\ LET raw == [query |-> Text("q"), total_count |-> PyInt(7),
                   incomplete_results |-> PyBool(FALSE)]
       IN ret' = build_commits_report(raw, args.simplified, DefaultApiBase,
                                      PyNone, PyNone, PyNone, args.stats)
    /\ UNCHANGED <<args, pvars>>

NextReport ==
    \/ repos_command_report
    \/ code_command_report
    \/ commits_command_report

SpecReport == InitReport /\ [][NextReport]_vars

----------------------------------------------------------------------------
(* The objects the transforms return.  A call is given the list object     *)
(* "repos" (or "items"); what it returns is that same object or one made   *)
(* during the call ("new").  The outcome holds the object returned, its    *)
(* value, and the value of the argument object after the call.             *)

\* filtered = repos; each filter that is active rebinds filtered to the list
\* its comprehension builds
apply_filters_object(repos, min_stars, language) ==
    LET filtered1 == IF min_stars # PyNone THEN "new" ELSE "repos"
        filtered2 == IF Truthy(language) THEN "new" ELSE filtered1
    IN [object |-> filtered2,
        value |-> apply_filters(repos, min_stars, language),
        argument |-> repos]

\* return repos; return repos if not reverse else list(reversed(repos));
\* return sorted(repos, ...)
apply_sorting_object(repos, sort_by, sort_direction) ==
    LET reverse == Lower(sort_direction.v) # Asc
        object ==
            IF sort_by \notin {PyNone, Text("stars"), Text("forks"),
                               Text("updated"), Text("created")}
            THEN "repos"
            ELSE IF sort_by = PyNone
            THEN (IF ~reverse THEN "repos" ELSE "new")
            ELSE "new"
    IN [object |-> object,
        value |-> apply_sorting(repos, sort_by, sort_direction),
        argument |-> repos]

InitObjects ==
    LET Lists(records) == UNION {[1..n -> records] : n \in 0..MaxRepos}
        Repos == Lists({Repo(PyInt(100), PyStr(Py)), Repo(PyInt(50), PyStr(Go))})
        Commits == Lists({Commit(Text("owner/repo1"), Text("u1")),
                          Commit(Text("owner/repo2"), Text("u2"))})
    IN  /\ PaginatorIdle
        /\ op = "none"
        /\ args \in
             [fn : {"apply_filters"}, repos : Repos,
              min_stars : {PyNone, PyInt(100)},
              language : {PyNone, PyStr(<<>>), PyStr(Py)}]
             \cup [fn : {"apply_sorting"}, repos : Repos,
                   sort_by : {PyNone, Text("stars"), Text("name")},
                   sort_direction : {PyStr(Asc), PyStr(Desc)}]
             \cup [fn : {"group_by_language"}, repos : Repos]
             \cup [fn : {"aggregate_commits_by_repo"}, repos : Commits]
        /\ ret = <<>>

apply_filters_object_call ==
    /\ op = "none"
    /\ args.fn = "apply_filters"
    /\ op' = "apply_filters"
    /\ ret' = apply_filters_object(args.repos, args.min_stars, args.language)
    /\ UNCHANGED <<args, pvars>>

apply_sorting_object_call ==
    /\ op = "none"
    /\ args.fn = "apply_sorting"
    /\ op' = "apply_sorting"
    /\ ret' = apply_sorting_object(args.repos, args.sort_by, args.sort_direction)
    /\ UNCHANGED <<args, pvars>>

\* groups = {} is filled and returned; the lists in it are made by setdefault
group_by_language_object_call ==
    /\ op = "none"
    /\ args.fn = "group_by_language"
    /\ op' = "group_by_language"
    /\ ret' = [object |-> "new", value |-> group_by_language(args.repos),
               argument |-> args.repos]
    /\ UNCHANGED <<args, pvars>>

\* list(repo_stats.values()) over entries made in the loop
aggregate_commits_by_repo_object_call ==
    /\ op = "none"
    /\ args.fn = "aggregate_commits_by_repo"
    /\ op' = "aggregate_commits_by_repo"
    /\ ret' = [object |-> "new", value |-> aggregate_commits_by_repo(args.repos),
               argument |-> args.repos]
    /\ UNCHANGED <<args, pvars>>

NextObjects ==
    \/ apply_filters_object_call
    \/ apply_sorting_object_call
    \/ group_by_language_object_call
    \/ aggregate_commits_by_repo_object_call

SpecObjects == InitObjects /\ [][NextObjects]_vars

----------------------------------------------------------------------------
(* The three paginators side by side: each is called with the same        *)
(* max_pages and the i-th request of each is answered by the same outcome. *)
(* ret holds the frame of each call: its position, loop variable, locals,  *)
(* the pages it requested and the Search Result it returned.               *)

\* one pass of the loop of search_repositories: the request for page st.page
\* and the loop body on its response
search_repositories_pass(st, resp, mp) ==
    LET b == search_repositories_body(resp, st.items, st.total_count,
                                      st.incomplete_results, st.page)
        after == [st EXCEPT !.sent = Append(@, st.page),
                            !.items = b.items,
                            !.total_count = b.total_count,
                            !.incomplete_results = b.incomplete_results]
    IN IF b.exit = "raise" THEN [after EXCEPT !.pc = "raised"]
       ELSE IF b.exit = "continue" /\ search_repositories_more(st.page, mp)
       THEN [after EXCEPT !.page = @ + 1]
       ELSE [after EXCEPT
               !.pc = "returned",
               !.result = search_repositories_return(b.items, b.total_count,
                                                     b.incomplete_results)]

search_code_async_pass(st, resp, mp) ==
    LET b == search_code_async_body(resp, st.items, st.total_count,
                                    st.incomplete_results, st.page)
        after == [st EXCEPT !.sent = Append(@, st.page),
                            !.items = b.items,
                            !.total_count = b.total_count,
                            !.incomplete_results = b.incomplete_results]
    IN IF b.exit = "raise" THEN [after EXCEPT !.pc = "raised"]
       ELSE IF b.exit = "continue" /\ search_code_async_more(st.page, mp)
       THEN [after EXCEPT !.page = @ + 1]
       ELSE [after EXCEPT
               !.pc = "returned",
               !.result = search_code_async_return(b.items, b.total_count,
                                                   b.incomplete_results)]

search_commits_async_pass(st, resp, mp) ==
    LET b == search_commits_async_body(resp, st.items, st.total_count,
                                       st.incomplete_results, st.page)
        after == [st EXCEPT !.sent = Append(@, st.page),
                            !.items = b.items,
                            !.total_count = b.total_count,
                            !.incomplete_results = b.incomplete_results]
    IN IF b.exit = "raise" THEN [after EXCEPT !.pc = "raised"]
       ELSE IF b.exit = "continue" /\ search_commits_async_more(st.page, mp)
       THEN [after EXCEPT !.page = @ + 1]
       ELSE [after EXCEPT
               !.pc = "returned",
               !.result = search_commits_async_return(b.items, b.total_count,
                                                      b.incomplete_results)]

\* the three calls have been made and stand before their first pass
InitSideBySide ==
    LET frame == [pc |-> "loop", page |-> 1, items |-> <<>>,
                  total_count |-> PyNone, incomplete_results |-> FALSE,
                  sent |-> <<>>, result |-> NoResult]
    IN  /\ PaginatorIdle
        /\ op = "paginate"
        /\ args \in [max_pages : 1..MaxPages, outcomes : {<<>>}]
        /\ ret = [search_repositories |-> frame, search_code_async |-> frame,
                  search_commits_async |-> frame]

\* the next outcome arrives: each call that is still in its loop makes a pass
paginators_pass ==
    /\ op = "paginate"
    /\ {fn \in DOMAIN ret : ret[fn].pc = "loop"} # {}
    /\ \E resp \in Responses :
        LET mp == args.max_pages
            sync == ret["search_repositories"]
            code == ret["search_code_async"]
            commits == ret["search_commits_async"]
        IN /\ args' = [args EXCEPT !.outcomes = Append(@, resp)]
           /\ ret' =
                [search_repositories |->
                     IF sync.pc = "loop"
                     THEN search_repositories_pass(sync, resp, mp) ELSE sync,
                 search_code_async |->
                     IF code.pc = "loop"
                     THEN search_code_async_pass(code, resp, mp) ELSE code,
                 search_commits_async |->
                     IF commits.pc = "loop"
                     THEN search_commits_async_pass(commits, resp, mp)
                     ELSE commits]
    /\ UNCHANGED <<op, pvars>>

NextSideBySide == paginators_pass

SpecSideBySide == InitSideBySide /\ [][NextSideBySide]_vars

----------------------------------------------------------------------------
(* Properties of the paginators *)

Terminal == pc \in {"returned", "raised"}
Failed(r) == r.transport_error \/ r.status >= 400
Succeeded(r) == ~r.transport_error /\ r.status < 400 /\ r.decodable

\* the items the i-th response carried
ItemsOf(i) ==
    IF Succeeded(responses[i]) THEN PageItems(sent[i], responses[i].n_items)
    ELSE <<>>

\* the items of the first k responses, concatenated in the order received
RECURSIVE FetchedUpTo(_)
FetchedUpTo(k) ==
    IF k <= 0 THEN <<>>
    ELSE IF k > Len(responses) THEN FetchedUpTo(Len(responses))
    ELSE FetchedUpTo(k - 1) \o ItemsOf(k)

FetchedItems == FetchedUpTo(Len(responses))

\* a is a prefix of b, as item lists
RECURSIVE IsPrefix(_, _)
IsPrefix(a, b) ==
    IF a = <<>> THEN TRUE
    ELSE IF b = <<>> THEN FALSE
    ELSE IF Len(a) = 1
         THEN /\ Head(a).page = Head(b).page
              /\ Head(a).lo = Head(b).lo
              /\ Head(a).hi <= Head(b).hi
         ELSE Head(a) = Head(b) /\ IsPrefix(Tail(a), Tail(b))

MinOf(a, b) == IF a <= b THEN a ELSE b

\* C1: a paginate call returns at most 1000 items, they are a prefix of the
\* concatenation of the fetched pages' items, and no page is requested once the
\* running item count has reached 1000.
C1_Cap ==
    /\ pc = "returned" =>
        /\ ItemsLen(result.items) <= 1000
        /\ IsPrefix(result.items, FetchedItems)
    /\ \A i \in 1..Len(sent) : ItemsLen(FetchedUpTo(i - 1)) < 1000

\* the last page overshot the cap, the result was cut to 1000 and pages were left
C1_Witness ==
    /\ pc = "returned"
    /\ ItemsLen(FetchedItems) > 1000
    /\ ItemsLen(result.items) = 1000
    /\ Len(sent) < max_pages

C3_Page1Only ==
    (pc = "returned" /\ Succeeded(responses[1])) =>
        /\ result.incomplete_results = Truthy(responses[1].incomplete_results)
        /\ responses[1].total_count # PyNone =>
               result.total_count = responses[1].total_count
        /\ responses[1].total_count = PyNone =>
               result.total_count \in {PyInt(ItemsLen(result.items)),
                                       PyInt(ItemsLen(FetchedItems))}

\* C4: each page number in 1..max_pages is requested at most once, so a failed
\* page is never requested again, there are at most max_pages requests, and the
\* call has ended once max_pages responses have come in; until then it can
\* always take a step.
C4_NoRetry ==
    /\ \A i \in 1..Len(sent) : sent[i] \in 1..max_pages
    /\ \A i, j \in 1..Len(sent) : sent[i] = sent[j] => i = j
    /\ Len(sent) <= max_pages
    /\ Len(responses) <= max_pages
    /\ Len(responses) = max_pages /\ command # "none" => Terminal
    /\ pc \in {"loop", "awaiting"} => ENABLED Next

\* the loop ran out of pages: every page was requested once
C4_Witness ==
    /\ pc = "returned"
    /\ max_pages >= 2
    /\ Len(sent) = max_pages
    /\ Succeeded(responses[max_pages])
    /\ responses[max_pages].has_next
    /\ ItemsLen(items) < 1000

\* C5 as claimed: when a paginate call has returned or raised, the session or
\* client it opened is closed.
C5_Closed ==
    Terminal =>
        /\ command = "repos" => session = "closed"
        /\ command \in {"code", "commits"} => client = "closed"

\* C6: in the code and commit paginators at most one request is outstanding,
\* pages are requested as 1, 2, 3, ... and page k+1 only after the response to
\* page k has come in and its items were appended, so items are accumulated in
\* page order.
C6_Sequential ==
    command \in {"code", "commits"} =>
        /\ Cardinality(inflight) <= 1
        /\ \A i \in 1..Len(sent) : sent[i] = i
        /\ Len(sent) <= Len(responses) + 1
        /\ inflight = {sent[i] : i \in (Len(responses) + 1)..Len(sent)}
        /\ items = FetchedItems
        /\ \A i, j \in 1..Len(items) : i < j => items[i].page < items[j].page

\* the third page is outstanding and the items of the first two are in
C6_Witness ==
    /\ command \in {"code", "commits"}
    /\ pc = "awaiting"
    /\ inflight = {3}
    /\ Len(items) = 2

----------------------------------------------------------------------------
(* Properties of the resolvers *)

\* a source is set when it is present and not the empty string
IsSet(v) == v # PyNone /\ v # PyStr(<<>>)

\* the first source of the list that is set, PyNone when none is
RECURSIVE FirstSet(_)
FirstSet(sources) ==
    IF sources = <<>> THEN PyNone
    ELSE IF IsSet(Head(sources)) THEN Head(sources)
    ELSE FirstSet(Tail(sources))

HasPrefix(s, prefix) ==
    Len(prefix) <= Len(s) /\ SubSeq(s, 1, Len(prefix)) = prefix

\* v is the API base made from GHE_URL value u
FromGheUrl(v, u) ==
    /\ v.t = "str"
    /\ EndsWith(v.v, ApiV3)
    /\ HasPrefix(v.v, RStripSlash(u.v))

\* C7: each resolver returns the value of the first source that is set, in the
\* order CLI, config file, environment variables (ghpr: GHPR_TOKEN, GHE_TOKEN,
\* GITHUB_TOKEN and GHPR_API_BASE, GHE_URL converted; ghsearch: GHSEARCH_TOKEN,
\* GITHUB_TOKEN and GHSEARCH_API_BASE), and else no token / the default base.
C7_Precedence ==
    LET e(k) == Get(args.environ, k)
        tok(envs) == FirstSet(<<args.cli, args.config>> \o envs)
    IN
    /\ op = "ghpr.resolve_auth_token" =>
        LET w == tok(<<e("GHPR_TOKEN"), e("GHE_TOKEN"), e("GITHUB_TOKEN")>>)
        IN IF w # PyNone THEN ret = w ELSE ~IsSet(ret)
    /\ op = "ghsearch.resolve_auth_token" =>
        LET w == tok(<<e("GHSEARCH_TOKEN"), e("GITHUB_TOKEN")>>)
        IN IF w # PyNone THEN ret = w ELSE ~IsSet(ret)
    /\ op = "ghpr.resolve_api_base" =>
        LET w == tok(<<e("GHPR_API_BASE")>>)
        IN IF w # PyNone THEN ret = w
           ELSE IF IsSet(e("GHE_URL")) THEN FromGheUrl(ret, e("GHE_URL"))
           ELSE ret = DefaultApiBase
    /\ op = "ghsearch.resolve_api_base" =>
        LET w == tok(<<e("GHSEARCH_API_BASE")>>)
        IN IF w # PyNone THEN ret = w ELSE ret = DefaultApiBase

\* GHE_TOKEN wins over a set GITHUB_TOKEN when nothing above it is set
C7_Witness ==
    /\ op = "ghpr.resolve_auth_token"
    /\ ~IsSet(args.cli) /\ ~IsSet(args.config)
    /\ Get(args.environ, "GHPR_TOKEN") = PyStr(<<>>)
    /\ IsSet(Get(args.environ, "GHE_TOKEN"))
    /\ IsSet(Get(args.environ, "GITHUB_TOKEN"))
    /\ ret = Get(args.environ, "GHE_TOKEN")

\* C8: the conversion of GHE_URL is idempotent (converting the converted URL
\* gives it back); a URL that does not end in "/api/v3" yields the URL without
\* its trailing slashes followed by "/api/v3", and a URL that ends in
\* "/api/v3" is returned unchanged.
C8_Idempotent ==
    (op = "ghpr.resolve_api_base" /\ args.for = "ghe_url") =>
        LET u == args.environ["GHE_URL"].v
        IN /\ args.round = 2 => ret.v = u
           /\ ~EndsWith(u, ApiV3) => ret.v = RStripSlash(u) \o ApiV3
           /\ EndsWith(u, ApiV3) => ret.v = u

\* the second run, on a URL that the first run had to convert
C8_Witness ==
    /\ op = "ghpr.resolve_api_base"
    /\ args.for = "ghe_url"
    /\ args.round = 2
    /\ ret.v = <<"h">> \o ApiV3

----------------------------------------------------------------------------
(* Properties of the effective settings *)

\* what the claim gives a field: the command-line value when the option was
\* given, else the config file's when its section has the key, else the rest
Effective(given, cli_value, key, rest) ==
    LET subcfg == Subcfg(args.config, args.section)
    IN IF given THEN cli_value
       ELSE IF key \in DOMAIN subcfg THEN subcfg[key]
       ELSE rest

\* a plain option
Plain(key, rest) == Effective(key \in DOMAIN args.cli, Get(args.cli, key), key, rest)

\* a pair of flags --x / --no-x
Pair(key, no_key, rest) ==
    Effective({key, no_key} \cap DOMAIN args.cli # {},
              PyBool(no_key \notin DOMAIN args.cli), key, rest)

\* C9 as claimed: every field of the merged settings is the CLI value when the
\* option was given, else the config-file value when the file has one, else the
\* environment value or the default, each field on its own.
C9_Settings ==
    /\ op = "repos_command" =>
        /\ ret.token = Plain("token", Get(args.environ, "GITHUB_TOKEN"))
        /\ ret.query = Plain("query", Text("topic:astro topic:template"))
        /\ ret.per_page = Plain("per_page", PyInt(50))
        /\ ret.max_pages = Plain("max_pages", PyInt(3))
        /\ ret.min_stars = Plain("min_stars", PyNone)
        /\ ret.language = Plain("language", PyNone)
        /\ ret.sort_by = Plain("sort_by", PyNone)
        /\ ret.sort_direction = Plain("sort_direction", PyStr(Desc))
        /\ ret.group_by_language =
               Pair("group_by_language", "no_group_by_language", PyBool(FALSE))
        /\ ret.top_n = Plain("top_n", PyNone)
        /\ ret.verify_tls = Pair("verify_tls", "no_verify_tls", PyBool(TRUE))
    /\ op = "commits_command" =>
        /\ ret.query = Plain("query", Text("fix"))
        /\ ret.per_page = Plain("per_page", PyInt(50))
        /\ ret.max_pages = Plain("max_pages", PyInt(3))
        /\ ret.repo = Plain("repo", PyNone)
        /\ ret.author = Plain("author", PyNone)
        /\ ret.committer = Plain("committer", PyNone)
        /\ ret.stats = Plain("stats", PyBool(FALSE))
        /\ ret.verify_tls = Pair("verify_tls", "no_verify_tls", PyBool(TRUE))
    /\ op = "create_command" =>
        /\ ret.token = Plain("token", Get(args.environ, "GITHUB_TOKEN"))
        /\ ret.owner = Plain("owner", Get(args.environ, "GHE_PROJECT"))
        /\ ret.repo = Plain("repo", Get(args.environ, "GHE_REPO_NAME"))
        /\ ret.proxy = Plain("proxy", PyNone)
        /\ ret.verify_tls = Pair("verify_tls", "no_verify_tls", PyBool(TRUE))

----------------------------------------------------------------------------
(* Properties of the transforms *)

UpperChar(c) ==
    CASE c = "g" -> "G"
      [] c = "o" -> "O"
      [] c = "p" -> "P"
      [] c = "y" -> "Y"
      [] OTHER -> c

EqualIgnoringCase(a, b) ==
    Len(a) = Len(b) /\ \A i \in 1..Len(a) : UpperChar(a[i]) = UpperChar(b[i])

\* the stars of a record, absent or null counted as 0
StarsOf(r) == IF "stars" \in DOMAIN r /\ r["stars"] # PyNone THEN r["stars"].v ELSE 0

\* the record passes every active filter
Passes(r, min_stars, language) ==
    /\ min_stars # PyNone => StarsOf(r) >= min_stars.v
    /\ IsSet(language) =>
        /\ "language" \in DOMAIN r
        /\ r["language"] # PyNone
        /\ EqualIgnoringCase(r["language"].v, language.v)

\* the j-th smallest member of a set of indices
Nth(S, j) == CHOOSE i \in S : Cardinality({k \in S : k < i}) = j - 1

\* C10: apply_filters returns exactly the records that pass every active
\* filter (stars >= min_stars with absent or null stars as 0; language equal
\* to the filter ignoring case, null or absent language failing), in their
\* input order.
C10_Filters ==
    op = "apply_filters" =>
        LET kept == {i \in 1..Len(args.repos) :
                        Passes(args.repos[i], args.min_stars, args.language)}
        IN /\ Len(ret) = Cardinality(kept)
           /\ \A j \in 1..Len(ret) : ret[j] = args.repos[Nth(kept, j)]

\* both filters active; the middle record of three is dropped for its stars,
\* the others match the language filter in another case
C10_Witness ==
    /\ op = "apply_filters"
    /\ args.min_stars = PyInt(100)
    /\ args.language = PyStr(<<"P", "Y">>)
    /\ Len(args.repos) = 3
    /\ args.repos[2] = Repo(PyInt(50), PyStr(Py))
    /\ ret = <<Repo(PyInt(100), PyStr(Py)), Repo(PyInt(100), PyStr(Py))>>

\* the number of times x occurs in the sequence
Count(seq, x) == Cardinality({i \in DOMAIN seq : seq[i] = x})

IsPermutation(a, b) ==
    /\ Len(a) = Len(b)
    /\ \A i \in DOMAIN b : Count(a, b[i]) = Count(b, b[i])

\* the field a sort key reads and what a missing value compares as
SortField(sort_by) ==
    CASE sort_by = Text("stars") -> "stars"
      [] sort_by = Text("forks") -> "forks"
      [] sort_by = Text("updated") -> "updated_at"
      [] sort_by = Text("created") -> "created_at"

SortKeyOf(r, sort_by) ==
    LET f == SortField(sort_by)
    IN IF f \in DOMAIN r /\ r[f] # PyNone THEN r[f]
       ELSE IF sort_by \in {Text("stars"), Text("forks")} THEN PyInt(0)
       ELSE PyStr(<<>>)

EnumeratedSortKeys ==
    {Text("stars"), Text("forks"), Text("updated"), Text("created")}

\* C11: for a sort key in {stars, forks, updated, created} apply_sorting
\* returns a permutation of its input, non-decreasing by that key for
\* direction asc and non-increasing for desc (the default direction), a
\* missing numeric key comparing as 0 and a missing timestamp as the empty
\* string; for a sort key that is given and not one of the four it returns its
\* input unchanged.
C11_Sorting ==
    op = "apply_sorting" =>
        LET asc == args.sort_direction = PyStr(Asc)
            desc == args.sort_direction \in {PyStr(Desc), Absent}
            key(i) == SortKeyOf(ret[i], args.sort_by)
        IN /\ args.sort_by \in EnumeratedSortKeys /\ (asc \/ desc) =>
                /\ IsPermutation(ret, args.repos)
                /\ \A i \in 1..(Len(ret) - 1) :
                      /\ asc => ~PyLess(key(i + 1), key(i))
                      /\ desc => ~PyLess(key(i), key(i + 1))
           /\ args.sort_by \notin EnumeratedSortKeys \cup {PyNone} =>
                ret = args.repos

\* three records sorted by stars ascending: the one without stars comes first
C11_Witness ==
    /\ op = "apply_sorting"
    /\ args.sort_by = Text("stars")
    /\ args.sort_direction = PyStr(Asc)
    /\ Len(args.repos) = 3
    /\ "stars" \notin DOMAIN ret[1]
    /\ Get(ret[2], "stars") = PyInt(25)
    /\ Get(ret[3], "stars") = PyInt(50)
    /\ ret # args.repos

\* the language value of a record, null for a record without one
LanguageOf(r) == IF "language" \in DOMAIN r THEN r["language"] ELSE PyNone

\* the sum of the lengths of the buckets with keys in S
RECURSIVE SumOfSizes(_, _)
SumOfSizes(groups, S) ==
    IF S = {} THEN 0
    ELSE LET k == CHOOSE x \in S : TRUE
         IN Len(groups[k]) + SumOfSizes(groups, S \ {k})

\* the positions of bucket k's records in the input: strictly increasing and
\* each holding the record of that position
InInputOrder(bucket, repos, k) ==
    LET at == {i \in DOMAIN repos : LanguageOf(repos[i]) = k}
    IN /\ Len(bucket) = Cardinality(at)
       /\ \A j \in DOMAIN bucket : bucket[j] = repos[Nth(at, j)]

\* C12: group_by_language partitions its input: every record is in exactly
\* one bucket, the one keyed by its language value (the null key for a record
\* without a language), no bucket is empty, the bucket sizes sum to the input
\* length, and each bucket keeps the input order.
C12_Partition ==
    op = "group_by_language" =>
        /\ DOMAIN ret = {LanguageOf(args.repos[i]) : i \in DOMAIN args.repos}
        /\ \A k \in DOMAIN ret : ret[k] # <<>>
        /\ SumOfSizes(ret, DOMAIN ret) = Len(args.repos)
        /\ \A k \in DOMAIN ret : InInputOrder(ret[k], args.repos, k)

\* a bucket of two different records around a record of the null bucket
C12_Witness ==
    /\ op = "group_by_language"
    /\ Len(args.repos) = 3
    /\ DOMAIN ret = {PyNone, PyStr(Py)}
    /\ ret[PyStr(Py)] = <<args.repos[1], args.repos[3]>>
    /\ args.repos[1] # args.repos[3]
    /\ ret[PyNone] = <<args.repos[2]>>

\* the positions of the input records named n
NamedAt(its, n) ==
    {i \in DOMAIN its : "repository_full_name" \in DOMAIN its[i]
                        /\ its[i]["repository_full_name"] = n}

\* the non-empty repository names of the input
RepoNames(its) ==
    {its[i]["repository_full_name"] :
        i \in {j \in DOMAIN its : IsSet(Get(its[j], "repository_full_name"))}}

RECURSIVE SumOfCounts(_)
SumOfCounts(summaries) ==
    IF summaries = <<>> THEN 0
    ELSE Head(summaries)["total_number_of_commits"].v
         + SumOfCounts(Tail(summaries))

\* C13: aggregate_commits_by_repo returns exactly one summary per distinct
\* non-empty repository_full_name of the input; its commit count is the number
\* of input records with that name and its html_url that of the first of them;
\* records without a repository name contribute to no summary, so the counts
\* sum to the number of named records.
C13_Aggregate ==
    op = "aggregate_commits_by_repo" =>
        LET names == RepoNames(args.items)
        IN /\ Len(ret) = Cardinality(names)
           /\ {ret[i]["repository_full_name"] : i \in DOMAIN ret} = names
           /\ \A i \in DOMAIN ret :
                LET at == NamedAt(args.items, ret[i]["repository_full_name"])
                IN /\ ret[i]["total_number_of_commits"] = PyInt(Cardinality(at))
                   /\ ret[i]["repository_html_url"] =
                        Get(args.items[Nth(at, 1)], "repository_html_url")
           /\ SumOfCounts(ret) =
                Cardinality({i \in DOMAIN args.items :
                    IsSet(Get(args.items[i], "repository_full_name"))})

\* two commits of one repository with different urls and one unnamed record
C13_Witness ==
    /\ op = "aggregate_commits_by_repo"
    /\ args.items = <<Commit(Text("owner/repo1"), Text("u1")),
                      Commit(PyNone, Text("u1")),
                      Commit(Text("owner/repo1"), Text("u2"))>>
    /\ ret = <<[repository_full_name |-> Text("owner/repo1"),
                repository_html_url |-> Text("u1"),
                total_number_of_commits |-> PyInt(2)]>>

\* the raw value is missing or null
Missing(item, k) == k \notin DOMAIN item \/ item[k] = PyNone

\* the count a record must carry for the raw count k
CountOf(item, k) == IF Missing(item, k) THEN PyInt(0) ELSE item[k]

\* C14: simplify_repos maps the raw items to as many records in the same
\* order; stars, watchers and forks are integers, 0 whenever the raw count is
\* missing or null; topics defaults to the empty sequence; license is null
\* whenever the raw license is null or absent.
C14_Simplify ==
    op = "simplify_repos" =>
        /\ Len(ret) = Len(args.items)
        /\ \A i \in DOMAIN ret :
            LET item == args.items[i]
            IN /\ ret[i]["full_name"] = Get(item, "full_name")
               /\ ret[i]["stars"] = CountOf(item, "stargazers_count")
               /\ ret[i]["watchers"] = CountOf(item, "watchers_count")
               /\ ret[i]["forks"] = CountOf(item, "forks_count")
               /\ ret[i]["stars"].t = "int"
               /\ ret[i]["watchers"].t = "int"
               /\ ret[i]["forks"].t = "int"
               /\ Missing(item, "topics") => ret[i]["topics"] = PyList(<<>>)
               /\ Missing(item, "license") => ret[i]["license"] = PyNone

\* the qualifiers of the call in their fixed order
QualifiersOf(in) ==
    IF in.command = "code"
    THEN <<[name |-> <<"r", "e", "p", "o">>, value |-> in.repo],
           [name |-> <<"l", "a", "n", "g", "u", "a", "g", "e">>,
            value |-> in.language],
           [name |-> <<"p", "a", "t", "h">>, value |-> in.path]>>
    ELSE <<[name |-> <<"r", "e", "p", "o">>, value |-> in.repo],
           [name |-> <<"a", "u", "t", "h", "o", "r">>, value |-> in.author],
           [name |-> <<"c", "o", "m", "m", "i", "t", "t", "e", "r">>,
            value |-> in.committer]>>

\* base followed by " name:value" for each supplied qualifier
RECURSIVE WithQualifiers(_, _)
WithQualifiers(base, quals) ==
    IF quals = <<>> THEN base
    ELSE LET h == Head(quals)
         IN WithQualifiers(
                IF IsSet(h.value)
                THEN base \o <<" ">> \o h.name \o <<":">> \o h.value.v
                ELSE base,
                Tail(quals))

ExpectedQuery == PyStr(WithQualifiers(args.query.v, QualifiersOf(args)))

Searching == op \in {"search_code_async", "search_commits_async"}

\* C15: in code and commit search the final query is the base query followed
\* by the supplied qualifiers only, each preceded by exactly one space, in the
\* order repo, language, path (code) or repo, author, committer (commits);
\* every page request of the call carries it as q, and the result and the
\* report carry it as query.
C15_Query ==
    Searching =>
        /\ \A i \in DOMAIN ret.params : ret.params[i]["q"] = ExpectedQuery
        /\ ret.raw # NoResult => ret.raw["query"] = ExpectedQuery
        /\ ret.report # NoResult => ret.report["query"] = ExpectedQuery

\* a commit search with repo and committer supplied and no author, two page
\* requests sent and the report built
C15_Witness ==
    /\ op = "search_commits_async"
    /\ IsSet(args.repo) /\ args.author = PyNone /\ IsSet(args.committer)
    /\ Len(ret.params) = 2
    /\ ret.report # NoResult
    /\ ret.report["query"] = PyStr(args.query.v \o RepoQ \o args.repo.v
                                   \o CommitterQ \o args.committer.v)

\* sub occurs in s
Contains(s, sub) ==
    \E i \in 1..(Len(s) - Len(sub) + 1) : SubSeq(s, i, i + Len(sub) - 1) = sub

\* C16: with the debug flag set, nothing print_debug_info writes (the header
\* listing, the equivalent curl command) contains the auth token in full,
\* whatever the token's length.
C16_Masked ==
    op = "print_debug_info" /\ args.debug /\ IsSet(args.token) =>
        \A i \in DOMAIN ret : ~Contains(ret[i], args.token.v)

\* the merged settings of the invocation in args
MergedOf(in) ==
    IF in.command = "repos"
    THEN repos_command_merged(in.cli, in.config, in.environ)
    ELSE create_command_merged(in.cli, in.config, in.environ)

GhprCommands == {"create", "approve", "comment"}

\* the invocation in args has a configuration error
ConfigError ==
    LET merged == MergedOf(args)
    IN IF args.command = "repos"
       THEN \/ merged.sort_by \notin {PyNone} \cup EnumeratedSortKeys
            \/ Lower(merged.sort_direction.v) \notin {Asc, Desc}
       ELSE \/ ~IsSet(merged.token)
            \/ ~IsSet(merged.owner)
            \/ ~IsSet(merged.repo)
            \/ args.command = "comment"
               /\ args.comment_type \notin {"review", "issue"}

\* C17: a configuration error (token, owner or repo absent in create, approve
\* and comment, a comment type other than review and issue, an invalid merged
\* sort key or sort direction in repos) makes the command exit non-zero before
\* any HTTP request is issued.
C17_ConfigError ==
    ConfigError /\ command # "none" =>
        /\ sent = <<>>
        /\ exit_status = "nonzero"
        /\ ~report_emitted

\* a comment with token, owner and repo resolved and a type that is neither
\* review nor issue has exited
C17_Witness ==
    /\ command = "comment"
    /\ args.comment_type = "inline"
    /\ IsSet(MergedOf(args).token)
    /\ IsSet(MergedOf(args).owner)
    /\ IsSet(MergedOf(args).repo)
    /\ exit_status = "nonzero"
    /\ sent = <<>>

\* C18: an invocation of create, approve or comment that passes validation
\* issues exactly one HTTP request and never a second; if the request fails by
\* transport error or status >= 400 the command exits non-zero without the
\* success summary, otherwise it prints the summary and exits zero.
C18_OneRequest ==
    command \in GhprCommands /\ ~ConfigError =>
        /\ Len(sent) <= 1
        /\ Terminal =>
            /\ Len(sent) = 1
            /\ Len(responses) = 1
            /\ IF Failed(responses[1])
               THEN exit_status = "nonzero" /\ ~report_emitted
               ELSE exit_status = "zero" /\ report_emitted

\* what the file parses to: YAML first, JSON when YAML fails, Raises when both
\* fail or the file cannot be read as text
ParsedAs(file) ==
    IF ~file.decodable THEN Raises
    ELSE IF file.yaml # Raises THEN file.yaml
    ELSE file.json

\* the file is there with content and cannot be parsed
Malformed(file) == file.exists /\ ~file.blank /\ ParsedAs(file) = Raises

ExpectedConfig(file) ==
    IF ~file.exists \/ file.blank \/ ParsedAs(file) = Raises THEN EmptyDict
    ELSE IF ParsedAs(file).t = "dict" THEN ParsedAs(file).v
    ELSE EmptyDict

Loaded == op \in {"ghsearch.load_config", "ghpr.load_config"}

\* C19: load_config (ghpr and ghsearch) never raises and always returns a
\* mapping: the empty one when the file is missing, empty, unparseable or
\* parses to something that is not a mapping, the parsed mapping otherwise
\* (YAML first, JSON as fallback); for a malformed file a warning is written
\* to the error stream.
C19_LoadConfig ==
    Loaded =>
        /\ ~ret.raised
        /\ ret.value = ExpectedConfig(args.file)
        /\ Malformed(args.file) => ret.warnings # <<>>

\* the filtered and sorted sequence of the invocation in args
FilteredAndSorted ==
    apply_sorting(apply_filters(args.simplified, args.min_stars, args.language),
                  args.sort_by, args.sort_direction)

\* the first n records of a sequence (none for n <= 0)
FirstN(seq, n) ==
    IF n <= 0 THEN <<>> ELSE SubSeq(seq, 1, IF n < Len(seq) THEN n ELSE Len(seq))

Flat(report) ==
    /\ "repositories" \in DOMAIN report
    /\ "groups" \notin DOMAIN report
    /\ "group_by" \notin DOMAIN report

Grouped(report) ==
    /\ "groups" \in DOMAIN report
    /\ "group_by" \in DOMAIN report
    /\ report["group_by"] = "language"
    /\ "repositories" \notin DOMAIN report

\* the payload of the report is made of the records of base: the flat list is
\* base, the groups are the partition of base by language
BuiltFrom(report, base) ==
    /\ Flat(report) => report["repositories"] = base
    /\ Grouped(report) =>
        /\ DOMAIN report["groups"] = {LanguageOf(base[i]) : i \in DOMAIN base}
        /\ \A k \in DOMAIN report["groups"] :
              InInputOrder(report["groups"][k], base, k)

\* C20 as claimed: the report carries exactly one of the two shapes, and
\* whenever top_n is given its payload is built from the first top_n records
\* of the filtered and sorted sequence.
C20_AsClaimed ==
    op = "repos_command" =>
        /\ Flat(ret) \/ Grouped(ret)
        /\ ~(Flat(ret) /\ Grouped(ret))
        /\ BuiltFrom(ret, IF args.top_n # PyNone
                          THEN FirstN(FilteredAndSorted, args.top_n.v)
                          ELSE FilteredAndSorted)

\* C20, amended: a repos report carries exactly one of the two payload shapes,
\* the flat repositories list with no group_by marker or the groups mapping
\* with the group_by marker; when a positive top_n is given the payload is
\* built from the first top_n records of the filtered and sorted sequence
\* (truncation before grouping), and from all of them when top_n is not given
\* or is not positive.
C20_Report ==
    op = "repos_command" =>
        /\ Flat(ret) \/ Grouped(ret)
        /\ ~(Flat(ret) /\ Grouped(ret))
        /\ Grouped(ret) <=> Truthy(args.group_by_language)
        /\ BuiltFrom(ret, IF args.top_n # PyNone /\ args.top_n.v > 0
                          THEN FirstN(FilteredAndSorted, args.top_n.v)
                          ELSE FilteredAndSorted)

\* three records pass the filter, top_n 2 is given and grouping is on: the
\* groups hold the first two of them
C20_Witness ==
    /\ op = "repos_command"
    /\ args.top_n = PyInt(2)
    /\ args.min_stars = PyInt(100)
    /\ Truthy(args.group_by_language)
    /\ Len(FilteredAndSorted) = 3
    /\ Grouped(ret)
    /\ SumOfSizes(ret["groups"], DOMAIN ret["groups"]) = 2
    /\ ret["returned"] = PyInt(2)

\* the number of records in the payload of a report
PayloadSize(report) ==
    IF "groups" \in DOMAIN report
    THEN SumOfSizes(report["groups"], DOMAIN report["groups"])
    ELSE IF "repositories" \in DOMAIN report THEN Len(report["repositories"])
    ELSE IF "results" \in DOMAIN report THEN Len(report["results"])
    ELSE Len(report["commits"])

\* C21 as claimed: in every report of the repos, code and commits builders,
\* returned is the number of records in the emitted payload: after the top-N
\* truncation for repos (the total over the groups when grouped) and after the
\* aggregation for commits in stats mode.
C21_Returned ==
    op \in {"repos_command", "code_command", "commits_command"} =>
        ret["returned"] = PyInt(PayloadSize(ret))

\* the response to the request for page k lets the loop go on to page k + 1
GoesOn(k) ==
    /\ k < max_pages
    /\ Succeeded(responses[k])
    /\ responses[k].n_items >= 1
    /\ ItemsLen(FetchedUpTo(k)) < 1000
    /\ responses[k].has_next

\* C22: in any paginate call the request for page k+1 is issued if and only if
\* k < max_pages and the response of page k succeeded, held at least one item,
\* left the running item count below 1000 and carried a next link (the request
\* is the very next step of the call when they hold); a page that is empty or
\* has no next link ends the call with all the items accumulated so far kept.
C22_NextPage ==
    \A k \in 1..Len(responses) :
        /\ sent[k] = k
        /\ Len(sent) > k => GoesOn(k) /\ sent[k + 1] = k + 1
        /\ GoesOn(k) =>
              \/ Len(sent) > k
              \/ pc = "loop" /\ page = k + 1 /\ Len(responses) = k
        /\ (Succeeded(responses[k])
            /\ (responses[k].n_items = 0 \/ ~responses[k].has_next)) =>
              /\ Len(responses) = k
              /\ Len(sent) = k
              /\ pc = "returned"
              /\ IsPrefix(result.items, FetchedItems)
              /\ ItemsLen(result.items) = MinOf(1000, ItemsLen(FetchedItems))

\* page 2 came with items and no next link below max_pages: no third request,
\* the items of both pages returned
C22_Witness ==
    /\ max_pages = 3
    /\ Len(responses) = 2
    /\ GoesOn(1)
    /\ Succeeded(responses[2])
    /\ responses[2].n_items = 1
    /\ ~responses[2].has_next
    /\ pc = "returned"
    /\ sent = <<1, 2>>
    /\ ItemsLen(result.items) = responses[1].n_items + 1

\* no response of the call carried a total_count
TotalCountOmitted ==
    \A k \in 1..Len(responses) : responses[k].total_count = PyNone

\* C23 as claimed: when the API omits total_count, the total_count of the
\* Search Result is the length of its (at most 1000) returned items, and so 0
\* when page 1 fails or is empty.
C23_Fallback ==
    (pc = "returned" /\ TotalCountOmitted) =>
        /\ result.total_count = PyInt(ItemsLen(result.items))
        /\ (Failed(responses[1]) \/ responses[1].n_items = 0) =>
              result.total_count = PyInt(0)

\* the records of seq that are a or b, in the order they have in seq
Only(seq, a, b) == SelectSeq(seq, LAMBDA r : r \in {a, b})

\* C25: for the sort keys stars, forks, updated and created and for both
\* directions apply_sorting is stable: any two records whose keys are equal
\* (after the defaults for a missing key) come out in the relative order they
\* went in.
C25_Stable ==
    (op = "apply_sorting" /\ args.sort_by \in EnumeratedSortKeys) =>
        \A i, j \in DOMAIN args.repos :
            LET a == args.repos[i]
                b == args.repos[j]
            IN SortKeyOf(a, args.sort_by) = SortKeyOf(b, args.sort_by) =>
                   Only(ret, a, b) = Only(args.repos, a, b)

\* sorted by stars, descending: the record of 25 stars moved behind two
\* different records of 50 stars, which kept their order
C25_Witness ==
    /\ op = "apply_sorting"
    /\ args.sort_by = Text("stars")
    /\ args.sort_direction = PyStr(Desc)
    /\ Len(args.repos) = 3
    /\ Get(args.repos[1], "stars") = PyInt(25)
    /\ Get(args.repos[2], "stars") = PyInt(50)
    /\ Get(args.repos[3], "stars") = PyInt(50)
    /\ args.repos[2] # args.repos[3]
    /\ ret = <<args.repos[2], args.repos[3], args.repos[1]>>

\* the sub-object k of a raw item or of an object, empty when k is absent,
\* null or not an object
SubObject(d, k) ==
    IF k \in DOMAIN d /\ d[k].t = "dict" THEN d[k].v ELSE EmptyDict

\* C26 as claimed: simplify_repos, simplify_code_results and
\* simplify_commits_results never fail on a raw item whose license,
\* repository, commit, author or committer is absent, null or not an object;
\* such a sub-object is taken as empty, every field derived from it being
\* null.
C26_Tolerant ==
    /\ op = "simplify_repos" =>
          /\ Len(ret) = Len(args.items)
          /\ \A i \in DOMAIN ret :
                DOMAIN SubObject(args.items[i], "license") = {} =>
                    \/ ret[i]["license"] = PyNone
                    \/ /\ ret[i]["license"].t = "dict"
                       /\ \A k \in DOMAIN ret[i]["license"].v :
                              ret[i]["license"].v[k] = PyNone
    /\ op = "simplify_code_results" =>
          /\ ~ret.raised
          /\ Len(ret.value) = Len(args.items)
          /\ \A i \in DOMAIN ret.value :
                LET repo == SubObject(args.items[i], "repository")
                    r == ret.value[i]
                IN /\ r["repository_full_name"] = Get(repo, "full_name")
                   /\ r["repository_html_url"] = Get(repo, "html_url")
    /\ op = "simplify_commits_results" =>
          /\ ~ret.raised
          /\ Len(ret.value) = Len(args.items)
          /\ \A i \in DOMAIN ret.value :
                LET commit == SubObject(args.items[i], "commit")
                    author == SubObject(commit, "author")
                    committer == SubObject(commit, "committer")
                    repo == SubObject(args.items[i], "repository")
                    r == ret.value[i]
                IN /\ r["author_name"] = Get(author, "name")
                   /\ r["author_email"] = Get(author, "email")
                   /\ r["author_date"] = Get(author, "date")
                   /\ r["committer_name"] = Get(committer, "name")
                   /\ r["committer_email"] = Get(committer, "email")
                   /\ r["committer_date"] = Get(committer, "date")
                   /\ r["repository_full_name"] = Get(repo, "full_name")
                   /\ r["repository_html_url"] = Get(repo, "html_url")
                   /\ "message" \notin DOMAIN commit => r["message"] = PyNone

\* C27: the min_stars and language filters commute: filtering by stars and
\* then by language gives the same sequence as filtering by language and then
\* by stars, both equal apply_filters with both filters at once, and
\* apply_filters applied again with the same filter values changes nothing.
C27_Commute ==
    op = "apply_filters" =>
        LET by_stars(rs) == apply_filters(rs, args.min_stars, PyNone)
            by_language(rs) == apply_filters(rs, PyNone, args.language)
        IN /\ by_language(by_stars(args.repos)) = ret
           /\ by_stars(by_language(args.repos)) = ret
           /\ apply_filters(ret, args.min_stars, args.language) = ret

\* both filters are active, the stars filter drops one record of three, the
\* language filter two, and one record is left
C27_Witness ==
    /\ op = "apply_filters"
    /\ args.min_stars = PyInt(100)
    /\ args.language = PyStr(Go)
    /\ Len(args.repos) = 3
    /\ Len(apply_filters(args.repos, args.min_stars, PyNone)) = 2
    /\ Len(apply_filters(args.repos, PyNone, args.language)) = 1
    /\ apply_filters(args.repos, args.min_stars, PyNone)[1] # ret[1]
    /\ Len(ret) = 1

\* C28 as claimed: for every GHE_URL value, one ending in "/api/v3/" or in
\* several slashes included, the resolved API base is the URL with its
\* trailing slashes stripped, followed by "/api/v3" only if the stripped URL
\* does not end in it already; it ends in "/api/v3" and in no slash.
C28_Normalized ==
    (op = "ghpr.resolve_api_base" /\ args.for = "ghe_url") =>
        LET stripped == RStripSlash(args.environ["GHE_URL"].v)
        IN /\ ret.v = IF EndsWith(stripped, ApiV3) THEN stripped
                      ELSE stripped \o ApiV3
           /\ EndsWith(ret.v, ApiV3)
           /\ ~EndsWith(ret.v, <<"/">>)

\* C30 as claimed: when no sort key is given apply_sorting returns the records
\* in their input order for either direction, so that the repos command
\* without a sort key reports the repositories, and applies top-N, in the
\* order the search returned them.
C30_Unsorted ==
    (op = "repos_command" /\ args.sort_by = PyNone) =>
        LET filtered == apply_filters(args.simplified, args.min_stars,
                                      args.language)
        IN /\ FilteredAndSorted = filtered
           /\ BuiltFrom(ret, IF args.top_n # PyNone /\ args.top_n.v > 0
                             THEN FirstN(filtered, args.top_n.v)
                             ELSE filtered)

----------------------------------------------------------------------------
(* Properties of the objects returned *)

\* C24 as claimed: apply_filters, apply_sorting, group_by_language and
\* aggregate_commits_by_repo leave their input sequence and its records as
\* they were, and for every parameter combination the value they return is a
\* newly created sequence or mapping, not the input object itself.
C24_Pure ==
    op # "none" =>
        /\ ret.argument = args.repos
        /\ ret.object = "new"

----------------------------------------------------------------------------
(* Properties of the paginators side by side *)

\* C29: given the same max_pages and the same sequence of page outcomes, the
\* synchronous paginator and the two asynchronous ones issue the same sequence
\* of page requests, end at the same point and in the same way, and return
\* Search Results with equal total_count, incomplete_results and items.
C29_SameControlFlow ==
    op = "paginate" =>
        \A fn \in DOMAIN ret :
            LET sync == ret["search_repositories"]
            IN /\ ret[fn].sent = sync.sent
               /\ ret[fn].pc = sync.pc
               /\ sync.pc = "returned" => ret[fn].result = sync.result

\* three pages were requested by each, the last overshot the cap, and the three
\* returned the same 1000 items
C29_Witness ==
    /\ op = "paginate"
    /\ Len(args.outcomes) = 3
    /\ \A fn \in DOMAIN ret :
          /\ ret[fn].sent = <<1, 2, 3>>
          /\ ret[fn].pc = "returned"
          /\ ItemsLen(ret[fn].items) > 1000
          /\ ItemsLen(ret[fn].result.items) = 1000

====
